---------------------------- MODULE Spec2Model ----------------------------
(***************************************************************************)
(* A model of the inputlayer Python client: the migration executor and     *)
(* recorder (migrations/executor.py, migrations/recorder.py), the         *)
(* migration operations (migrations/operations.py), the autodetector,      *)
(* writer, loader and makemigrations command (migrations/autodetector.py,  *)
(* writer.py, loader.py, cli.py) and the query compiler with its variable  *)
(* environment (compiler.py), the connection (connection.py) and           *)
(* KnowledgeGraph.query (knowledge_graph.py).                              *)
(*                                                                         *)
(* Specifications:                                                         *)
(*   SpecMig    migrate / revert_to against a store holding the reserved   *)
(*              relation                                                   *)
(*   SpecFail   the same calls, with an executor that may fail on one      *)
(*              command, by raising or by an error result                  *)
(*   SpecApply  apply_migration / revert_migration on one migration        *)
(*   SpecRec    the recorder's own methods on the reserved relation        *)
(*   SpecComp   compile_query on bounded where-conditions                  *)
(*   SpecOr     compile_or_branches on bounded where-conditions            *)
(*   SpecEnv    get_var / unify calls on one variable environment          *)
(*   SpecDiff   detect_changes, its forward commands executed on a store   *)
(*   SpecWrite  generate_migration, the file written, the directory loaded *)
(*   SpecMake   makemigrations run in a row on one directory               *)
(*   SpecSeq    makemigrations runs from an empty directory                *)
(*   SpecConn   Connection.execute beside the receive loop, one socket     *)
(*   SpecConnLive  SpecConn with weak fairness of the server and readers   *)
(*   SpecNaive  the detected migration applied, then reverted, on a store   *)
(*   SpecDel    compile_conditional_delete on bounded conditions           *)
(*   SpecQuery  KnowledgeGraph.query against a server that honours limit   *)
(***************************************************************************)
EXTENDS Integers, Sequences, FiniteSets, TLC

VARIABLES
    migrations,   \* the list of MigrationInfo handed to migrate / revert_to
    rows,         \* tuples <<name, applied_at>> of __inputlayer_migrations__
    pre,          \* rows as they were when the last call started
    commands,     \* the commands the last call handed to kg.execute, in order
    result,       \* the list the last call returned (<<>> when it raised)
    raised,       \* "none", or the exception the last call ended with
    call,         \* the last call: operation, target, failing command
    cin,          \* the arguments of the compiler, autodetector or file call
    cout          \* what that call returned or left behind

migVars == <<migrations, rows, pre, commands, result, raised, call>>
vars == <<migrations, rows, pre, commands, result, raised, call, cin, cout>>

-----------------------------------------------------------------------------
(* Bounds of the model *)

MaxMigs == 3        \* migrations in the list, when the executor does not fail
MaxFailMigs == 2    \* migrations in the list, when one command may fail
MaxClock == 2       \* distinct applied_at timestamps
MaxOps == 2         \* operations of the migration under apply_migration
MaxConnectives == 2 \* connectives (&, |, ~) of a where-condition
MaxLimit == 2       \* the limit of a query that has one

-----------------------------------------------------------------------------
(* Small helpers *)

Range(s) == {s[i] : i \in 1..Len(s)}

Reverse(s) == [i \in 1..Len(s) |-> s[Len(s) + 1 - i]]

RECURSIVE Concat(_)
Concat(ss) == IF ss = <<>> THEN <<>> ELSE Head(ss) \o Concat(Tail(ss))

-----------------------------------------------------------------------------
(* migrations/operations.py: the eight operation variants *)

\* A command is the text handed to kg.execute, kept as <<kind, name, args>>.
Cmd(kind, name, args) == <<kind, name, args>>
CmdKind(c) == c[1]
CmdName(c) == c[2]
CmdArgs(c) == c[3]

\* An operation is <<type, name, a, b>>: a and b are its two list fields.
Op(type, name, a, b) == <<type, name, a, b>>
OpType(op) == op[1]
OpName(op) == op[2]
OpA(op) == op[3]
OpB(op) == op[4]

CreateRelation(name, columns) == Op("CreateRelation", name, columns, <<>>)
\* mutant: dropping a relation issues the command that creates it
DropRelation_as_create(name, columns) == Op("CreateRelation", name, columns, <<>>)
DropRelation(name, columns) == Op("DropRelation", name, columns, <<>>)
CreateRule(name, clauses) == Op("CreateRule", name, clauses, <<>>)
\* mutant: the dropped rule's clauses are not kept
DropRule_without_clauses(name, clauses) == Op("DropRule", name, <<>>, <<>>)
DropRule(name, clauses) == Op("DropRule", name, clauses, <<>>)
\* mutant: the replaced rule gets its old clauses
ReplaceRule_swapped(name, old_clauses, new_clauses) ==
    Op("ReplaceRule", name, new_clauses, old_clauses)
ReplaceRule(name, old_clauses, new_clauses) == Op("ReplaceRule", name, old_clauses, new_clauses)
CreateIndex(name, params) == Op("CreateIndex", name, params, <<>>)
DropIndex(name, params) == Op("DropIndex", name, params, <<>>)
RunDatalog(forward, backward) == Op("RunDatalog", "", forward, backward)

\* f"+{name}({parts})", parts being the "col: type" items
SchemaCmd(name, columns) ==
    Cmd("schema", name, [i \in 1..Len(columns) |-> columns[i][1] \o ": " \o columns[i][2]])
RelDropCmd(name) == Cmd("rel_drop", name, <<>>)
RuleDropCmd(name) == Cmd("rule_drop", name, <<>>)
\* params: <<relation, column, metric, m, ef_construction, ef_search>>
IndexCreateCmd(name, params) == Cmd("index_create", name, params)
IndexDropCmd(name) == Cmd("index_drop", name, <<>>)
\* a clause or a raw Datalog line is handed over verbatim
TextCmds(lines) == [i \in 1..Len(lines) |-> Cmd("text", lines[i], <<>>)]

forward_commands(op) ==
    CASE OpType(op) = "CreateRelation" -> <<SchemaCmd(OpName(op), OpA(op))>>
      [] OpType(op) = "DropRelation" -> <<RelDropCmd(OpName(op))>>
      [] OpType(op) = "CreateRule" -> TextCmds(OpA(op))
      [] OpType(op) = "DropRule" -> <<RuleDropCmd(OpName(op))>>
      [] OpType(op) = "ReplaceRule" -> <<RuleDropCmd(OpName(op))>> \o TextCmds(OpB(op))
      [] OpType(op) = "CreateIndex" -> <<IndexCreateCmd(OpName(op), OpA(op))>>
      [] OpType(op) = "DropIndex" -> <<IndexDropCmd(OpName(op))>>
      [] OpType(op) = "RunDatalog" -> TextCmds(OpA(op))

backward_commands(op) ==
    CASE OpType(op) = "CreateRelation" -> <<RelDropCmd(OpName(op))>>
      [] OpType(op) = "DropRelation" -> <<SchemaCmd(OpName(op), OpA(op))>>
      [] OpType(op) = "CreateRule" -> <<RuleDropCmd(OpName(op))>>
      [] OpType(op) = "DropRule" -> TextCmds(OpA(op))
      [] OpType(op) = "ReplaceRule" -> <<RuleDropCmd(OpName(op))>> \o TextCmds(OpA(op))
      [] OpType(op) = "CreateIndex" -> <<IndexDropCmd(OpName(op))>>
      [] OpType(op) = "DropIndex" -> <<IndexCreateCmd(OpName(op), OpA(op))>>
      [] OpType(op) = "RunDatalog" -> TextCmds(OpB(op))

-----------------------------------------------------------------------------
(* The store behind kg.execute, and migrations/recorder.py *)

MIGRATION_RELATION == "__inputlayer_migrations__"

\* datetime.now(timezone.utc).isoformat(): the i-th of MaxClock instants
Instant(i) == "2024-01-0" \o ToString(i)

InstantNo(t) == CHOOSE i \in 1..MaxClock : Instant(i) = t

\* The clock reads later than every instant recorded so far, up to the last
\* instant of the model.
Now(rs) ==
    LET used == {InstantNo(r[2]) : r \in rs}
        latest == IF used = {} THEN 0 ELSE CHOOSE i \in used : \A j \in used : j <= i
    IN Instant(IF latest < MaxClock THEN latest + 1 ELSE MaxClock)

\* The message of the executor's one-column error result.
ErrorMessage == "relation not found"

\* Every string get_applied can meet, in Python's string order (what sorted() uses).
SortedStrings ==
    <<"0001_initial", "0002_auto", "0003_auto", "0004_auto", "0099_nope", ErrorMessage>>

Rank(s) == CHOOSE i \in 1..Len(SortedStrings) : SortedStrings[i] = s

\* sorted(xs) of a list of strings
RECURSIVE Insert(_, _)
Insert(x, s) ==
    IF s = <<>> THEN <<x>>
    ELSE IF Rank(x) < Rank(Head(s)) THEN <<x>> \o s
    ELSE <<Head(s)>> \o Insert(x, Tail(s))

RECURSIVE sorted(_)
sorted(xs) == IF xs = <<>> THEN <<>> ELSE Insert(Head(xs), sorted(Tail(xs)))

\* The rows of a result, a set of tuples, as the list the client receives: the
\* order of a result's rows is the server's, and sorted() makes it irrelevant.
RECURSIVE RowList(_)
RowList(rs) ==
    IF rs = {} THEN <<>>
    ELSE LET r == CHOOSE x \in rs : TRUE IN <<r>> \o RowList(rs \ {r})

\* The executor during one call: the store it changes, the commands it was
\* handed, the result of the last one, the exception it raised, and the one
\* command (failAt, 0 for none) that fails, by raising or by an error result.
NewKG(rs, failAt, failMode) ==
    [rows |-> rs, commands |-> <<>>, answer |-> {}, raised |-> "none",
     failAt |-> failAt, failMode |-> failMode]

\* What a command does to the reserved relation; the commands of a migration
\* act on the user's relations, rules and indexes, not on it.
Effect(rs, cmd) ==
    IF CmdName(cmd) # MIGRATION_RELATION THEN rs
    ELSE CASE CmdKind(cmd) = "insert" -> rs \cup {CmdArgs(cmd)}
           [] CmdKind(cmd) = "delete_where_name" -> {r \in rs : r[1] # CmdArgs(cmd)[1]}
           [] OTHER -> rs

\* The rows a command returns.
Answer(rs, cmd) ==
    IF CmdName(cmd) = MIGRATION_RELATION /\ CmdKind(cmd) = "query" THEN rs ELSE {}

\* kg.execute(cmd). Once an exception is raised nothing else of the call runs.
\* A failing command changes nothing; it raises, or (as Connection._read_result
\* turns an error message into) returns the one-column error result.
execute(kg, cmd) ==
    IF kg.raised # "none" THEN kg
    ELSE LET log == Append(kg.commands, cmd) IN
         IF Len(log) = kg.failAt /\ kg.failMode = "raise"
         THEN [kg EXCEPT !.commands = log, !.raised = "ExecutorError"]
         ELSE IF Len(log) = kg.failAt
         THEN [kg EXCEPT !.commands = log, !.answer = {<<ErrorMessage>>}]
         ELSE [kg EXCEPT !.commands = log, !.rows = Effect(kg.rows, cmd),
                         !.answer = Answer(kg.rows, cmd)]

EnsureSchemaCmd ==
    SchemaCmd(MIGRATION_RELATION, <<<<"name", "string">>, <<"applied_at", "string">>>>)
GetAppliedCmd == Cmd("query", MIGRATION_RELATION, <<"Name", "At">>)
RecordAppliedCmd(name, now) == Cmd("insert", MIGRATION_RELATION, <<name, now>>)
RecordRevertedCmd(name) == Cmd("delete_where_name", MIGRATION_RELATION, <<name>>)

ensure_schema(kg) == execute(kg, EnsureSchemaCmd)

\* sorted(str(row[0]) for row in rows); returns [kg, value]
get_applied(kg) ==
    LET kg1 == execute(kg, GetAppliedCmd)
        rl == RowList(kg1.answer)
    IN [kg |-> kg1, value |-> sorted([i \in 1..Len(rl) |-> rl[i][1]])]

record_applied(kg, name) == execute(kg, RecordAppliedCmd(name, Now(kg.rows)))

record_reverted(kg, name) == execute(kg, RecordRevertedCmd(name))

-----------------------------------------------------------------------------
(* migrations/executor.py *)

None == "None"

RECURSIVE execute_all(_, _)
execute_all(kg, cmds) ==
    IF cmds = <<>> THEN kg ELSE execute_all(execute(kg, Head(cmds)), Tail(cmds))

\* for op in ops: for cmd in op.forward_commands(): kg.execute(cmd)
RECURSIVE run_forward(_, _)
run_forward(kg, ops) ==
    IF ops = <<>> THEN kg
    ELSE run_forward(execute_all(kg, forward_commands(Head(ops))), Tail(ops))

\* for op in ops: for cmd in op.backward_commands(): kg.execute(cmd)
RECURSIVE run_backward(_, _)
run_backward(kg, ops) ==
    IF ops = <<>> THEN kg
    ELSE run_backward(execute_all(kg, backward_commands(Head(ops))), Tail(ops))

apply_migration(kg, m) == run_forward(kg, m.operations)

\* mutant: the operations are reverted in declaration order
revert_migration_in_order(kg, m) == run_backward(kg, m.operations)

revert_migration(kg, m) == run_backward(kg, Reverse(m.operations))

\* mutant: the check of line 45 is missing
already_applied_never(m, applied) == FALSE

\* line 45: if m.name in applied: continue
already_applied(m, applied) == m.name \in applied

\* line 47: if target is not None and m.name == target: break  (before applying)
stop_before(m, target) == target # None /\ m.name = target

\* line 54: if target is not None and m.name == target: break  (after recording)
stop_after(m, target) == target # None /\ m.name = target

\* The loop of migrate over the rest ms of the list; st = [kg, names].
RECURSIVE migrate_loop(_, _, _, _)
migrate_loop(st, ms, applied, target) ==
    IF ms = <<>> \/ st.kg.raised # "none" THEN st
    ELSE LET m == Head(ms) IN
         IF already_applied(m, applied) THEN migrate_loop(st, Tail(ms), applied, target)
         ELSE IF stop_before(m, target) THEN st
         ELSE LET kg1 == apply_migration(st.kg, m)
                  kg2 == record_applied(kg1, m.name)
              IN IF kg2.raised # "none" THEN [st EXCEPT !.kg = kg2]
                 ELSE LET st2 == [kg |-> kg2, names |-> Append(st.names, m.name)] IN
                      IF stop_after(m, target) THEN st2
                      ELSE migrate_loop(st2, Tail(ms), applied, target)

\* migrate(kg, migrations, recorder, target=target); returns [kg, names]
migrate(kg, ms, target) ==
    LET kg1 == ensure_schema(kg)
        ga == get_applied(kg1)
    IN migrate_loop([kg |-> ga.kg, names |-> <<>>], ms, Range(ga.value), target)

\* mutant: target_idx starts at the first migration instead of None
target_index_default_first(ms, target) ==
    IF \E i \in 1..Len(ms) : ms[i].name = target
    THEN CHOOSE i \in 1..Len(ms) : ms[i].name = target
    ELSE 1

\* lines 74-78: the index of the first migration named target, 0 for none
target_index(ms, target) ==
    IF \E i \in 1..Len(ms) : ms[i].name = target
    THEN CHOOSE i \in 1..Len(ms) :
            /\ ms[i].name = target
            /\ \A j \in 1..(i - 1) : ms[j].name # target
    ELSE 0

RECURSIVE Filter(_, _)
Filter(ms, applied) ==
    IF ms = <<>> THEN <<>>
    ELSE IF Head(ms).name \in applied THEN <<Head(ms)>> \o Filter(Tail(ms), applied)
    ELSE Filter(Tail(ms), applied)

\* mutant: reversed() is missing
to_revert_oldest_first(ms, idx, applied) == Filter(SubSeq(ms, idx + 1, Len(ms)), applied)

\* mutant: the slice starts at the target, migrations[target_idx:]
to_revert_from_target(ms, idx, applied) == Filter(Reverse(SubSeq(ms, idx, Len(ms))), applied)

\* lines 84-87: [m for m in reversed(migrations[target_idx + 1:]) if m.name in applied]
to_revert(ms, idx, applied) == Filter(Reverse(SubSeq(ms, idx + 1, Len(ms))), applied)

RECURSIVE revert_loop(_, _)
revert_loop(st, ms) ==
    IF ms = <<>> \/ st.kg.raised # "none" THEN st
    ELSE LET m == Head(ms)
             kg1 == revert_migration(st.kg, m)
             kg2 == record_reverted(kg1, m.name)
         IN IF kg2.raised # "none" THEN [st EXCEPT !.kg = kg2]
            ELSE revert_loop([kg |-> kg2, names |-> Append(st.names, m.name)], Tail(ms))

\* revert_to(kg, migrations, recorder, target); returns [kg, names]
revert_to(kg, ms, target) ==
    LET kg1 == ensure_schema(kg)
        ga == get_applied(kg1)
        idx == target_index(ms, target)
    IN IF ga.kg.raised # "none" THEN [kg |-> ga.kg, names |-> <<>>]
       ELSE IF idx = 0 THEN [kg |-> [ga.kg EXCEPT !.raised = "MigrationError"], names |-> <<>>]
       ELSE revert_loop([kg |-> ga.kg, names |-> <<>>], to_revert(ms, idx, Range(ga.value)))

-----------------------------------------------------------------------------
(* The migrations and calls of the model *)

IndexParams == <<"t", "a", "cosine", "16", "100", "50">>

\* Four loaded migrations; between them they use the eight operation variants.
MigrationPool ==
    << [name |-> "0001_initial",
        operations |-> <<CreateRelation("t", <<<<"a", "int">>>>),
                         CreateRule("r", <<"+r(X) <- t(X)">>)>>],
       [name |-> "0002_auto",
        operations |-> <<ReplaceRule("r", <<"+r(X) <- t(X)">>, <<"+r(X) <- t(X), X > 0">>),
                         CreateIndex("t_idx", IndexParams)>>],
       [name |-> "0003_auto",
        operations |-> <<DropIndex("t_idx", IndexParams),
                         DropRule("r", <<"+r(X) <- t(X), X > 0">>),
                         DropRelation("t", <<<<"a", "int">>>>)>>],
       [name |-> "0004_auto",
        operations |-> <<RunDatalog(<<"+s(1)", "+s(2)">>, <<"-s(2)", "-s(1)">>)>>] >>

\* The first n migrations of the pool (n up to max), in any order: lists of
\* migrations with pairwise distinct names, whose list order need not be the
\* order of the names.
MigrationLists(max) ==
    UNION {{ms \in [1..n -> {MigrationPool[i] : i \in 1..n}] :
                \A i, j \in 1..n : i # j => ms[i].name # ms[j].name} : n \in 0..max}

Names(ms) == {ms[i].name : i \in 1..Len(ms)}

\* A target is the name of a migration of the list, or a name none of them has.
Targets(ms) == Names(ms) \cup {"0099_nope"}

FailModes == {"raise", "error_result"}

NoFailure == <<0, "none">>

\* One command of a call may fail: any of the n commands the call issues when
\* none fails (up to the failing command a run is that run), in either way.
Failures(n) == (1..n) \X FailModes

\* The names recorded as applied.
AppliedNames(rs) == {r[1] : r \in rs}

NoCall == [op |-> "none", target |-> None, failAt |-> 0, failMode |-> "none"]

\* The call as recorded: a failure that no command reached is no failure.
CallRecord(op, target, kg) ==
    IF Len(kg.commands) >= kg.failAt /\ kg.failAt > 0
    THEN [op |-> op, target |-> target, failAt |-> kg.failAt, failMode |-> kg.failMode]
    ELSE [op |-> op, target |-> target, failAt |-> 0, failMode |-> "none"]

Finish(op, target, r) ==
    /\ pre' = rows
    /\ rows' = r.kg.rows
    /\ commands' = r.kg.commands
    /\ result' = IF r.kg.raised # "none" THEN <<>> ELSE r.names
    /\ raised' = r.kg.raised
    /\ call' = CallRecord(op, target, r.kg)
    /\ UNCHANGED <<migrations, cin, cout>>

InitMigVars ==
    /\ rows = {}
    /\ pre = {}
    /\ commands = <<>>
    /\ result = <<>>
    /\ raised = "none"
    /\ call = NoCall

InitCompIdle ==
    /\ cin = <<>>
    /\ cout = <<>>

InitMig ==
    /\ migrations \in MigrationLists(MaxMigs)
    /\ InitMigVars
    /\ InitCompIdle

InitFail ==
    /\ migrations \in MigrationLists(MaxFailMigs)
    /\ InitMigVars
    /\ InitCompIdle

MigrateCall(target, f) ==
    \E r \in {migrate(NewKG(rows, f[1], f[2]), migrations, target)} :
        Finish("migrate", target, r)

RevertToCall(target, f) ==
    \E r \in {revert_to(NewKG(rows, f[1], f[2]), migrations, target)} :
        Finish("revert_to", target, r)

\* migrate(kg, migrations, recorder) and migrate(kg, migrations, recorder, target=t)
Migrate ==
    \E target \in Targets(migrations) \cup {None} : MigrateCall(target, NoFailure)

\* revert_to(kg, migrations, recorder, t)
RevertTo ==
    \E target \in Targets(migrations) : RevertToCall(target, NoFailure)

\* The same calls with an executor that fails on one command.
MigrateFailing ==
    \E target \in Targets(migrations) \cup {None} :
        \E n \in {Len(migrate(NewKG(rows, 0, "none"), migrations, target).kg.commands)} :
            \E f \in Failures(n) : MigrateCall(target, f)

RevertToFailing ==
    \E target \in Targets(migrations) :
        \E n \in {Len(revert_to(NewKG(rows, 0, "none"), migrations, target).kg.commands)} :
            \E f \in Failures(n) : RevertToCall(target, f)

NextMig == Migrate \/ RevertTo

SpecMig == InitMig /\ [][NextMig]_vars

NextFail == Migrate \/ RevertTo \/ MigrateFailing \/ RevertToFailing

SpecFail == InitFail /\ [][NextFail]_vars

-----------------------------------------------------------------------------
(* apply_migration and revert_migration on one migration, called directly *)

\* One operation of each variant; several of them issue more than one command.
OpPool ==
    { CreateRelation("t", <<<<"a", "int">>, <<"b", "string">>>>),
      DropRelation("u", <<<<"c", "float">>>>),
      CreateRule("r", <<"+r(X) <- t(X, _)", "+r(X) <- u(X)">>),
      DropRule("q", <<"+q(X) <- u(X)">>),
      ReplaceRule("p", <<"+p(X) <- t(X, _)", "+p(X) <- u(X)">>, <<"+p(X) <- r(X)">>),
      CreateIndex("t_idx", IndexParams),
      DropIndex("u_idx", <<"u", "c", "euclidean", "16", "100", "50">>),
      RunDatalog(<<"+s(1)", "+s(2)">>, <<"-s(2)", "-s(1)">>) }

OperationLists == UNION {[1..n -> OpPool] : n \in 0..MaxOps}

InitApply ==
    /\ migrations \in {<<[name |-> "0001_initial", operations |-> ops]>> : ops \in OperationLists}
    /\ InitMigVars
    /\ InitCompIdle

\* A function that raises returns nothing.
FinishDirect(op, kg) ==
    /\ pre' = rows
    /\ rows' = kg.rows
    /\ commands' = kg.commands
    /\ result' = <<>>
    /\ raised' = kg.raised
    /\ call' = CallRecord(op, None, kg)
    /\ UNCHANGED <<migrations, cin, cout>>

AllFailures(n) == {NoFailure} \cup Failures(n)

\* apply_migration(kg, m)
ApplyMigration ==
    \E n \in {Len(apply_migration(NewKG(rows, 0, "none"), migrations[1]).commands)} :
        \E f \in AllFailures(n) :
            \E kg \in {apply_migration(NewKG(rows, f[1], f[2]), migrations[1])} :
                FinishDirect("apply_migration", kg)

\* revert_migration(kg, m)
RevertMigration ==
    \E n \in {Len(revert_migration(NewKG(rows, 0, "none"), migrations[1]).commands)} :
        \E f \in AllFailures(n) :
            \E kg \in {revert_migration(NewKG(rows, f[1], f[2]), migrations[1])} :
                FinishDirect("revert_migration", kg)

NextApply == ApplyMigration \/ RevertMigration

SpecApply == InitApply /\ [][NextApply]_vars

-----------------------------------------------------------------------------
(* The recorder's methods, called directly on a working executor *)

RecorderNames == {MigrationPool[i].name : i \in 1..MaxMigs}

InitRec ==
    /\ migrations = <<>>
    /\ InitMigVars
    /\ InitCompIdle

FinishRec(op, name, kg, value) ==
    /\ pre' = rows
    /\ rows' = kg.rows
    /\ commands' = kg.commands
    /\ result' = value
    /\ raised' = kg.raised
    /\ call' = CallRecord(op, name, kg)
    /\ UNCHANGED <<migrations, cin, cout>>

EnsureSchema ==
    FinishRec("ensure_schema", None, ensure_schema(NewKG(rows, 0, "none")), <<>>)

GetApplied ==
    \E r \in {get_applied(NewKG(rows, 0, "none"))} :
        FinishRec("get_applied", None, r.kg, r.value)

RecordApplied ==
    \E name \in RecorderNames :
        FinishRec("record_applied", name, record_applied(NewKG(rows, 0, "none"), name), <<>>)

RecordReverted ==
    \E name \in RecorderNames :
        FinishRec("record_reverted", name, record_reverted(NewKG(rows, 0, "none"), name), <<>>)

NextRec == EnsureSchema \/ GetApplied \/ RecordApplied \/ RecordReverted

SpecRec == InitRec /\ [][NextRec]_vars

-----------------------------------------------------------------------------
(* compiler.py: the variable environment _VarEnv *)

\* The value of a call, named once and used several times, is written
\* The({body : x \in {call}}): the element of a one-element set.
The(S) == CHOOSE x \in S : TRUE

\* A Python dict: a function whose domain is the set of its keys.
EmptyDict == [k \in {} |-> ""]
Put(d, k, v) == [x \in (DOMAIN d) \cup {k} |-> IF x = k THEN v ELSE d[x]]
Get(d, k, default) == IF k \in DOMAIN d THEN d[k] ELSE default
Values(d) == {d[k] : k \in DOMAIN d}

\* _ast.Column(relation, name, ref_alias)
AstColumn(relation, name, ref_alias) == <<"Column", relation, name, ref_alias>>
ColRelation(col) == col[2]
ColName(col) == col[3]
ColAlias(col) == col[4]

\* f"{col.ref_alias or col.relation}.{col.name}"
Key(col) == (IF ColAlias(col) # None THEN ColAlias(col) ELSE ColRelation(col)) \o "." \o ColName(col)

\* _naming.column_to_variable on the column names of the model:
\* "".join(part.capitalize() for part in name.split("_"))
column_to_variable(name) ==
    CASE name = "id" -> "Id"
      [] name = "name" -> "Name"
      [] name = "dept_id" -> "DeptId"
      [] name = "salary" -> "Salary"

\* _VarEnv(): _map, _counter, _parent
VarEnv == [map |-> EmptyDict, counter |-> 0, parent |-> EmptyDict]

\* _find with its path halving; returns [env, root]
RECURSIVE _find(_, _)
_find(env, key) ==
    IF Get(env.parent, key, key) = key THEN [env |-> env, root |-> key]
    ELSE The({_find(env1, env1.parent[key]) :
                env1 \in {[env EXCEPT !.parent =
                             Put(env.parent, key,
                                 Get(env.parent, env.parent[key], env.parent[key]))]}})

\* _union: self._parent[rb] = ra
_union(env, a, b) ==
    The({The({IF fa.root # fb.root
              THEN [fb.env EXCEPT !.parent = Put(fb.env.parent, fb.root, fa.root)]
              ELSE fb.env :
                fb \in {_find(fa.env, b)}}) :
            fa \in {_find(env, a)}})

\* mutant: the name is not checked against the names in use
new_var_unchecked(env, root, name) ==
    [env |-> [env EXCEPT !.map = Put(env.map, root, column_to_variable(name))],
     var |-> column_to_variable(name)]

\* lines 94-100 and 111-116: a new variable for root, named after the column,
\* with the counter appended when the name is taken; returns [env, var]
new_var(env, root, name) ==
    LET var == column_to_variable(name)
        taken == var \in Values(env.map)
        counter == IF taken THEN env.counter + 1 ELSE env.counter
        v == IF taken THEN var \o "_" \o ToString(counter) ELSE var
    IN [env |-> [env EXCEPT !.counter = counter, !.map = Put(env.map, root, v)], var |-> v]

\* get_var(col); returns [env, var]
get_var(env, col) ==
    The({IF f.root \in DOMAIN f.env.map
         THEN [env |-> f.env, var |-> f.env.map[f.root]]
         ELSE new_var(f.env, f.root, ColName(col)) :
            f \in {_find(env, Key(col))}})

\* unify(col_a, col_b); returns [env, var]
unify(env, col_a, col_b) ==
    The({The({IF f.root \in DOMAIN f.env.map
              THEN [env |-> f.env, var |-> f.env.map[f.root]]
              ELSE new_var(f.env, f.root, ColName(col_a)) :
                f \in {_find(env1, Key(col_a))}}) :
            env1 \in {_union(env, Key(col_a), Key(col_b))}})

\* lookup(col); returns [env, var], var = None when the root has no variable
lookup(env, col) ==
    The({[env |-> f.env, var |-> Get(f.env.map, f.root, None)] : f \in {_find(env, Key(col))}})

\* The root of a key, leaving the environment alone.
Root(env, key) == _find(env, key).root

-----------------------------------------------------------------------------
(* compiler.py: expressions and conditions *)

\* _ast.Literal(value), Comparison(op, left, right), And, Or, Not, AggExpr
Literal(value) == <<"Literal", value>>
Comparison(op, left, right) == <<"Comparison", op, left, right>>
And(left, right) == <<"And", left, right>>
Or(left, right) == <<"Or", left, right>>
Not(operand) == <<"Not", operand>>
AggExpr(func, column) == <<"AggExpr", func, column>>
NodeType(e) == e[1]

\* ", ".join(parts) and its like
RECURSIVE Join(_, _)
Join(parts, sep) ==
    IF parts = <<>> THEN ""
    ELSE IF Len(parts) = 1 THEN parts[1]
    ELSE parts[1] \o sep \o Join(Tail(parts), sep)

\* compile_value of the int literals of the model: str(value)
compile_value(value) == ToString(value)

\* A piece of emitted text, with the columns whose variables it carries:
\* occ holds <<key, var>> for every occurrence of a column's variable in text.
Part(text, occ) == [text |-> text, occ |-> occ]

Texts(parts) == [i \in 1..Len(parts) |-> parts[i].text]
Occs(parts) == UNION {parts[i].occ : i \in 1..Len(parts)}

\* compile_expr on Column, Literal and AggExpr (func<Column>: no params, no
\* passthrough, no order column); returns [env, part]
compile_expr(expr, env) ==
    CASE NodeType(expr) = "Column" ->
            The({[env |-> g.env, part |-> Part(g.var, {<<Key(expr), g.var>>})] :
                    g \in {get_var(env, expr)}})
      [] NodeType(expr) = "Literal" ->
            [env |-> env, part |-> Part(compile_value(expr[2]), {})]
      [] NodeType(expr) = "AggExpr" ->
            The({[env |-> g.env,
                  part |-> Part(expr[2] \o "<" \o g.var \o ">", {<<Key(expr[3]), g.var>>})] :
                    g \in {get_var(env, expr[3])}})

\* _compile_comparison; returns [env, part]
_compile_comparison(comp, env) ==
    IF comp[2] = "=" /\ NodeType(comp[3]) = "Column" /\ NodeType(comp[4]) = "Column"
    THEN [env |-> unify(env, comp[3], comp[4]).env, part |-> Part("", {})]
    ELSE The({The({[env |-> r.env,
                    part |-> Part(l.part.text \o " " \o comp[2] \o " " \o r.part.text,
                                  l.part.occ \cup r.part.occ)] :
                      r \in {compile_expr(comp[4], l.env)}}) :
                 l \in {compile_expr(comp[3], env)}})

\* compile_bool_expr on Comparison, And, Or, Not; returns [env, parts, raised]
RECURSIVE compile_bool_expr(_, _)
compile_bool_expr(expr, env) ==
    CASE NodeType(expr) = "Comparison" ->
            The({[env |-> c.env, parts |-> <<c.part>>, raised |-> "none"] :
                    c \in {_compile_comparison(expr, env)}})
      [] NodeType(expr) = "And" ->
            The({IF l.raised # "none" THEN l
                 ELSE The({[env |-> r.env, parts |-> l.parts \o r.parts, raised |-> r.raised] :
                             r \in {compile_bool_expr(expr[3], l.env)}}) :
                    l \in {compile_bool_expr(expr[2], env)}})
      [] NodeType(expr) = "Or" ->
            [env |-> env, parts |-> <<>>, raised |-> "ValueError"]
      [] NodeType(expr) = "Not" ->
            The({IF i.raised # "none" THEN i
                 ELSE [env |-> i.env,
                       parts |-> <<Part("!(" \o Join(Texts(i.parts), ", ") \o ")", Occs(i.parts))>>,
                       raised |-> "none"] :
                    i \in {compile_bool_expr(expr[2], env)}})

\* mutant: the branches of the right operand come first
RECURSIVE compile_or_branches_right_first(_, _)
compile_or_branches_right_first(expr, env) ==
    IF NodeType(expr) = "Or"
    THEN The({IF l.raised # "none" THEN l
              ELSE The({[env |-> r.env, branches |-> r.branches \o l.branches,
                         raised |-> r.raised] :
                          r \in {compile_or_branches_right_first(expr[3], l.env)}}) :
                 l \in {compile_or_branches_right_first(expr[2], env)}})
    ELSE The({[env |-> c.env, branches |-> <<c.parts>>, raised |-> c.raised] :
                 c \in {compile_bool_expr(expr, env)}})

\* compile_or_branches; returns [env, branches, raised]
RECURSIVE compile_or_branches(_, _)
compile_or_branches(expr, env) ==
    IF NodeType(expr) = "Or"
    THEN The({IF l.raised # "none" THEN l
              ELSE The({[env |-> r.env, branches |-> l.branches \o r.branches,
                         raised |-> r.raised] :
                          r \in {compile_or_branches(expr[3], l.env)}}) :
                 l \in {compile_or_branches(expr[2], env)}})
    ELSE The({[env |-> c.env, branches |-> <<c.parts>>, raised |-> c.raised] :
                 c \in {compile_bool_expr(expr, env)}})

\* _has_or
RECURSIVE _has_or(_)
_has_or(expr) ==
    CASE NodeType(expr) = "Or" -> TRUE
      [] NodeType(expr) = "And" -> _has_or(expr[2]) \/ _has_or(expr[3])
      [] NodeType(expr) = "Not" -> _has_or(expr[2])
      [] OTHER -> FALSE

\* _process_join_condition; returns the environment
RECURSIVE _process_join_condition(_, _)
_process_join_condition(condition, env) ==
    IF /\ NodeType(condition) = "Comparison"
       /\ condition[2] = "="
       /\ NodeType(condition[3]) = "Column"
       /\ NodeType(condition[4]) = "Column"
    THEN unify(env, condition[3], condition[4]).env
    ELSE IF NodeType(condition) = "And"
    THEN The({_process_join_condition(condition[3], env1) :
                 env1 \in {_process_join_condition(condition[2], env)}})
    ELSE env

\* [p for p in parts if p]
NonEmpty(parts) == SelectSeq(parts, LAMBDA p : p.text # "")

-----------------------------------------------------------------------------
(* compiler.py: compile_query *)

\* Python's None for an optional expression, condition or limit argument.
Absent == <<>>

\* Relation._get_columns of the two Relation classes of the model
Columns(rn) ==
    CASE rn = "employee" -> <<"id", "dept_id", "salary">>
      [] rn = "department" -> <<"id", "name">>

\* A Relation class in select, and an entry (name, cls, alias) of all_relations
\* (the class is known by its name).
RelationCls(rn) == <<"Relation", rn>>
RelEntry(rn, alias) == <<rn, alias>>

\* AstColumn(rn, col, alias) for col in cols
ColumnsOf(rn, alias) == [i \in 1..Len(Columns(rn)) |-> AstColumn(rn, Columns(rn)[i], alias)]

\* env.get_var(c) for each column c of cols, in order; returns [env, parts]
RECURSIVE get_vars(_, _)
get_vars(env, cols) ==
    IF cols = <<>> THEN [env |-> env, parts |-> <<>>]
    ELSE The({The({[env |-> rest.env,
                    parts |-> <<Part(g.var, {<<Key(Head(cols)), g.var>>})>> \o rest.parts] :
                      rest \in {get_vars(g.env, Tail(cols))}}) :
                 g \in {get_var(env, Head(cols))}})

\* lines 485-495: the atom of one relation, env.lookup(c) or "_" for each
\* column; returns [env, parts] with one part per column
RECURSIVE atom_parts(_, _)
atom_parts(env, cols) ==
    IF cols = <<>> THEN [env |-> env, parts |-> <<>>]
    ELSE The({The({[env |-> rest.env,
                    parts |-> <<IF l.var # None
                                THEN Part(l.var, {<<Key(Head(cols)), l.var>>})
                                ELSE Part("_", {})>> \o rest.parts] :
                      rest \in {atom_parts(l.env, Tail(cols))}}) :
                 l \in {lookup(env, Head(cols))}})

\* the body atoms of all_relations; returns [env, parts] with one part per relation
RECURSIVE body_atoms(_, _)
body_atoms(env, rels) ==
    IF rels = <<>> THEN [env |-> env, parts |-> <<>>]
    ELSE The({The({[env |-> rest.env,
                    parts |-> <<Part(Head(rels)[1] \o "(" \o Join(Texts(a.parts), ", ") \o ")",
                                     Occs(a.parts))>> \o rest.parts] :
                      rest \in {body_atoms(a.env, Tail(rels))}}) :
                 a \in {atom_parts(env, ColumnsOf(Head(rels)[1], Head(rels)[2]))}})

\* lines 499-503: the limit clause (offset is not given)
limit_clause(limit) ==
    IF limit # Absent THEN <<"limit(" \o ToString(limit[1]) \o ")">> ELSE <<>>

\* One emitted query: head, body atoms, condition literals (parts) and the
\* limit clause, with the text f"?{head_str} <- {', '.join(all_body)}".
Query(head, atoms, literals, limit) ==
    [head |-> head, atoms |-> atoms, literals |-> literals, limit |-> limit]

QueryBody(q) == Texts(q.atoms) \o Texts(q.literals) \o q.limit

\* lines 521-523 and 608-610
RenderQuery(q) ==
    IF QueryBody(q) # <<>>
    THEN "?" \o Join(Texts(q.head), ", ") \o " <- " \o Join(QueryBody(q), ", ")
    ELSE "?" \o Join(Texts(q.head), ", ")

\* line 518
RenderBranch(q) == "?" \o Join(Texts(q.head), ", ") \o " <- " \o Join(QueryBody(q), ", ")

\* What a compile function returns: a string (kind "str", value of length 1),
\* a list of strings (kind "list") or an exception (kind "raise"); queries are
\* the same strings by their pieces and env the environment at the end.
Returned(kind, value, queries, env, exc) ==
    [kind |-> kind, value |-> value, queries |-> queries, env |-> env, raised |-> exc]

\* lines 443-452: the head variables of the Relation classes in select, each
\* class joining all_relations unless it is there; st = [env, head, rels]
RECURSIVE select_relations(_, _)
select_relations(st, select) ==
    IF select = <<>> THEN st
    ELSE IF NodeType(Head(select)) # "Relation" THEN select_relations(st, Tail(select))
    ELSE LET entry == RelEntry(Head(select)[2], None)
             listed == \E i \in 1..Len(st.rels) : st.rels[i] = entry
         IN The({The({select_relations(st1, Tail(select)) :
                        st1 \in {[env |-> g.env,
                                  head |-> st.head \o g.parts,
                                  rels |-> IF listed THEN st.rels ELSE Append(st.rels, entry)]}}) :
                    g \in {get_vars(st.env, ColumnsOf(Head(select)[2], None))}})

\* lines 455-458: the head variables of the columns in select
SelectedColumns(select) == SelectSeq(select, LAMBDA s : NodeType(s) = "Column")

\* _compile_agg_query's loop over select; st = [env, head, aggs]
RECURSIVE agg_select(_, _)
agg_select(st, select) ==
    IF select = <<>> THEN st
    ELSE The({agg_select(st1, Tail(select)) :
                st1 \in {CASE NodeType(Head(select)) = "AggExpr" ->
                                The({[st EXCEPT !.env = c.env, !.aggs = Append(@, c.part)] :
                                        c \in {compile_expr(Head(select), st.env)}})
                           [] NodeType(Head(select)) = "Column" ->
                                The({[st EXCEPT !.env = g.env, !.head = @ \o g.parts] :
                                        g \in {get_vars(st.env, <<Head(select)>>)}})
                           [] NodeType(Head(select)) = "Relation" ->
                                The({[st EXCEPT !.env = g.env, !.head = @ \o g.parts] :
                                        g \in {get_vars(st.env, ColumnsOf(Head(select)[2], None))}})}})

\* _compile_agg_query (no order_by, offset or computed columns); or_branches
\* is a parameter that the function does not read
_compile_agg_query(select, env, all_relations, where_parts, or_branches, limit) ==
    The({The({The({Returned("str", <<RenderQuery(q)>>, <<q>>, b.env, "none") :
                     q \in {Query(s.head \o s.aggs, b.parts, where_parts, limit_clause(limit))}}) :
                b \in {body_atoms(s.env, all_relations)}}) :
            s \in {agg_select([env |-> env, head |-> <<>>, aggs |-> <<>>], select)}})

\* lines 426-523: the query without aggregation; ob = [env, branches] holds
\* or_branches (when split), wp = [env, parts] the where_parts
simple_query(select, relations, split, ob, wp, limit) ==
    The({The({The({
        LET head == sr.head \o sc.parts
            queries == [i \in 1..Len(ob.branches) |->
                           Query(head, b.parts, NonEmpty(ob.branches[i]), limit_clause(limit))]
            q == Query(head, b.parts, wp.parts, limit_clause(limit))
        IN IF split
           THEN Returned("list", [i \in 1..Len(queries) |-> RenderBranch(queries[i])],
                         queries, b.env, "none")
           ELSE Returned("str", <<RenderQuery(q)>>, <<q>>, b.env, "none") :
                     b \in {body_atoms(sc.env, sr.rels)}}) :
                sc \in {get_vars(sr.env, SelectedColumns(select))}}) :
            sr \in {select_relations([env |-> wp.env, head |-> <<>>, rels |-> relations], select)}})

\* compile_query(*select, relations=, on_condition=, where_condition=, limit=)
compile_query(select, relations, on_condition, where_condition, limit) ==
    LET split == where_condition # Absent /\ _has_or(where_condition)
        has_agg == \E i \in 1..Len(select) : NodeType(select[i]) = "AggExpr"
    IN The({The({The({
        IF ob.raised # "none" THEN Returned("raise", <<>>, <<>>, ob.env, ob.raised)
        ELSE IF wp.raised # "none" THEN Returned("raise", <<>>, <<>>, wp.env, wp.raised)
        ELSE IF has_agg
        THEN _compile_agg_query(select, wp.env, relations, wp.parts, ob.branches, limit)
        ELSE simple_query(select, relations, split, ob, wp, limit) :
                     wp \in {IF where_condition # Absent /\ ~split
                             THEN The({[c EXCEPT !.parts = NonEmpty(c.parts)] :
                                         c \in {compile_bool_expr(where_condition, ob.env)}})
                             ELSE [env |-> ob.env, parts |-> <<>>, raised |-> "none"]}}) :
                ob \in {IF split THEN compile_or_branches(where_condition, env1)
                        ELSE [env |-> env1, branches |-> <<>>, raised |-> "none"]}}) :
            env1 \in {IF on_condition # Absent
                      THEN _process_join_condition(on_condition, VarEnv)
                      ELSE VarEnv}})

-----------------------------------------------------------------------------
(* compile_query on the queries of the model *)

\* class Employee(Relation): id, dept_id, salary; class Department(Relation): id, name
employee_id == AstColumn("employee", "id", None)
employee_dept_id == AstColumn("employee", "dept_id", None)
employee_salary == AstColumn("employee", "salary", None)
department_id == AstColumn("department", "id", None)
department_name == AstColumn("department", "name", None)

\* Employee.dept_id == Department.id, the join of the two relations
JoinCondition == Comparison("=", employee_dept_id, department_id)

\* The comparisons a condition is made of: the join and two filters.
Comparisons ==
    { JoinCondition,
      Comparison(">", department_id, Literal(1)),
      Comparison("<", employee_salary, Literal(2)) }

\* The conditions with exactly n connectives (&, |, ~) over the comparisons.
RECURSIVE BoolExprs(_)
BoolExprs(n) ==
    IF n = 0 THEN Comparisons
    ELSE {Not(e) : e \in BoolExprs(n - 1)}
         \cup UNION {{And(l, r) : l \in BoolExprs(i), r \in BoolExprs(n - 1 - i)} : i \in 0..(n - 1)}
         \cup UNION {{Or(l, r) : l \in BoolExprs(i), r \in BoolExprs(n - 1 - i)} : i \in 0..(n - 1)}

WhereConditions == {Absent} \cup UNION {BoolExprs(n) : n \in 0..MaxConnectives}

\* select: columns of both relations, a whole relation, an aggregation by group
Selects ==
    { <<employee_id, department_name>>,
      <<RelationCls("employee")>>,
      <<department_name, AggExpr("sum", employee_salary)>> }

\* relations=: not given, or both relations of the join
RelationLists == {<<>>, <<RelEntry("employee", None), RelEntry("department", None)>>}

Limits == {Absent, <<MaxLimit>>}

QueryArgs ==
    [select : Selects, relations : RelationLists, on_condition : {Absent, JoinCondition},
     where_condition : WhereConditions, limit : Limits]

NotCompiled == Returned("none", <<>>, <<>>, VarEnv, "none")

InitComp ==
    /\ migrations = <<>>
    /\ InitMigVars
    /\ cin \in QueryArgs
    /\ cout = NotCompiled

\* compile_query(*select, relations=..., on_condition=..., where_condition=..., limit=...)
CompileQuery ==
    /\ cout = NotCompiled
    /\ cout' = compile_query(cin.select, cin.relations, cin.on_condition,
                             cin.where_condition, cin.limit)
    /\ UNCHANGED <<migVars, cin>>

NextComp == CompileQuery

SpecComp == InitComp /\ [][NextComp]_vars

-----------------------------------------------------------------------------
(* compile_or_branches, called directly on the conditions of the model *)

\* What compile_or_branches returns: the list of branches, each a list of
\* literals, or the exception compile_bool_expr raised.
OrResult(branches, env, exc) ==
    [kind |-> IF exc = "none" THEN "branches" ELSE "raise",
     branches |-> branches, env |-> env, raised |-> exc]

InitOr ==
    /\ migrations = <<>>
    /\ InitMigVars
    /\ cin \in [where_condition : WhereConditions \ {Absent}]
    /\ cout = NotCompiled

\* compile_or_branches(expr, _VarEnv())
CompileOrBranches ==
    /\ cout.kind = "none"
    /\ cout' = The({OrResult(b.branches, b.env, b.raised) :
                      b \in {compile_or_branches(cin.where_condition, VarEnv)}})
    /\ UNCHANGED <<migVars, cin>>

NextOr == CompileOrBranches

SpecOr == InitOr /\ [][NextOr]_vars

-----------------------------------------------------------------------------
(* _VarEnv: sequences of get_var and unify calls on one environment *)

\* Columns that share the name id (two relations and a self-join alias of
\* one of them) and one that does not.
EnvColumns ==
    {employee_id, department_id, AstColumn("employee", "id", "manager"), employee_dept_id}

\* cin is the last call, cout the environment before and after it and the
\* variable it returned.
NoEnvCall == [op |-> "none", a |-> employee_id, b |-> employee_id]
EnvState(before, r) == [kind |-> "env", before |-> before, env |-> r.env, var |-> r.var]

InitEnv ==
    /\ migrations = <<>>
    /\ InitMigVars
    /\ cin = NoEnvCall
    /\ cout = EnvState(VarEnv, [env |-> VarEnv, var |-> None])

\* env.get_var(col)
GetVar ==
    \E col \in EnvColumns :
        /\ cin' = [op |-> "get_var", a |-> col, b |-> col]
        /\ cout' = EnvState(cout.env, get_var(cout.env, col))
        /\ UNCHANGED migVars

\* env.unify(col_a, col_b)
Unify ==
    \E col_a, col_b \in EnvColumns :
        /\ cin' = [op |-> "unify", a |-> col_a, b |-> col_b]
        /\ cout' = EnvState(cout.env, unify(cout.env, col_a, col_b))
        /\ UNCHANGED migVars

NextEnv == GetVar \/ Unify

SpecEnv == InitEnv /\ [][NextEnv]_vars

-----------------------------------------------------------------------------
(* migrations/state.py and migrations/autodetector.py *)

\* ModelState: three dicts, by name
ModelState(relations, rules, indexes) ==
    [relations |-> relations, rules |-> rules, indexes |-> indexes]

\* Python's string order on the names of the model (what sorted() uses)
NameOrder == <<"q", "r", "t", "t_idx", "u", "u_idx">>

\* mutant: the names in descending order
sorted_names_descending(names) == Reverse(SelectSeq(NameOrder, LAMBDA n : n \in names))

\* sorted(names) of a set of names
sorted_names(names) == SelectSeq(NameOrder, LAMBDA n : n \in names)

\* the operations a loop appends, one list per name, in the order of names
ForEach(names, body(_)) == Concat([i \in 1..Len(names) |-> body(names[i])])

\* relation, column, and info.get(key, default) for the four optional keys
IndexInfoParams(info) ==
    <<info.relation, info.column, Get(info, "metric", "cosine"), Get(info, "m", "16"),
      Get(info, "ef_construction", "100"), Get(info, "ef_search", "50")>>

\* mutant: the old state is not looked at
detect_changes_from_scratch(old, new) ==
    ForEach(sorted_names(DOMAIN new.relations),
            LAMBDA name : <<CreateRelation(name, new.relations[name])>>)

detect_changes(old, new) ==
    LET old_rels == DOMAIN old.relations
        new_rels == DOMAIN new.relations
        old_rules == DOMAIN old.rules
        new_rules == DOMAIN new.rules
        old_idxs == DOMAIN old.indexes
        new_idxs == DOMAIN new.indexes
    IN Concat(<<
        \* 1. Create new relations
        ForEach(sorted_names(new_rels \ old_rels),
                LAMBDA name : <<CreateRelation(name, new.relations[name])>>),
        \* 2. Modified relations: drop + recreate
        ForEach(sorted_names(old_rels \cap new_rels),
                LAMBDA name : IF old.relations[name] # new.relations[name]
                              THEN <<DropRelation(name, old.relations[name]),
                                     CreateRelation(name, new.relations[name])>>
                              ELSE <<>>),
        \* 3. Drop rules that no longer exist
        ForEach(sorted_names(old_rules \ new_rules),
                LAMBDA name : <<DropRule(name, old.rules[name])>>),
        \* 4. Replace modified rules
        ForEach(sorted_names(old_rules \cap new_rules),
                LAMBDA name : IF old.rules[name] # new.rules[name]
                              THEN <<ReplaceRule(name, old.rules[name], new.rules[name])>>
                              ELSE <<>>),
        \* 5. Create new rules
        ForEach(sorted_names(new_rules \ old_rules),
                LAMBDA name : <<CreateRule(name, new.rules[name])>>),
        \* 6. Drop removed relations
        ForEach(sorted_names(old_rels \ new_rels),
                LAMBDA name : <<DropRelation(name, old.relations[name])>>),
        \* 7. Drop removed indexes
        ForEach(sorted_names(old_idxs \ new_idxs),
                LAMBDA name : <<DropIndex(name, IndexInfoParams(old.indexes[name]))>>),
        \* 8. Modified indexes: drop + recreate
        ForEach(sorted_names(old_idxs \cap new_idxs),
                LAMBDA name : IF old.indexes[name] # new.indexes[name]
                              THEN <<DropIndex(name, IndexInfoParams(old.indexes[name])),
                                     CreateIndex(name, IndexInfoParams(new.indexes[name]))>>
                              ELSE <<>>),
        \* 9. Create new indexes
        ForEach(sorted_names(new_idxs \ old_idxs),
                LAMBDA name : <<CreateIndex(name, IndexInfoParams(new.indexes[name]))>>) >>)

-----------------------------------------------------------------------------
(* Executing the operations of detect_changes on a store *)

\* The clauses of the model's rules: the rule a clause defines (its head)
\* and the relations its body references.
ClauseHead(clause) ==
    CASE clause = "+r(X) <- t(X)" -> "r"
      [] clause = "+r(X) <- u(X)" -> "r"
      [] clause = "+q(X) <- u(X)" -> "q"

ClauseBody(clause) ==
    CASE clause = "+r(X) <- t(X)" -> {"t"}
      [] clause = "+r(X) <- u(X)" -> {"u"}
      [] clause = "+q(X) <- u(X)" -> {"u"}

\* A store that creates and drops relations, rules and indexes by name:
\* the names of its relations and indexes, and the clauses of each rule.
Store(relations, rules, indexes) ==
    [relations |-> relations, rules |-> rules, indexes |-> indexes]

\* the store that holds a state
StoreOf(state) ==
    Store(DOMAIN state.relations,
          [n \in DOMAIN state.rules |-> Range(state.rules[n])],
          DOMAIN state.indexes)

\* one command on the store
store_execute(st, cmd) ==
    CASE CmdKind(cmd) = "schema" -> [st EXCEPT !.relations = @ \cup {CmdName(cmd)}]
      [] CmdKind(cmd) = "rel_drop" -> [st EXCEPT !.relations = @ \ {CmdName(cmd)}]
      [] CmdKind(cmd) = "rule_drop" ->
            [st EXCEPT !.rules = [n \in (DOMAIN @) \ {CmdName(cmd)} |-> @[n]]]
      [] CmdKind(cmd) = "text" ->
            [st EXCEPT !.rules = Put(@, ClauseHead(CmdName(cmd)),
                                     Get(@, ClauseHead(CmdName(cmd)), {}) \cup {CmdName(cmd)})]
      [] CmdKind(cmd) = "index_create" -> [st EXCEPT !.indexes = @ \cup {CmdName(cmd)}]
      [] CmdKind(cmd) = "index_drop" -> [st EXCEPT !.indexes = @ \ {CmdName(cmd)}]

\* the forward commands of a list of operations, in order
ForwardCommands(ops) == Concat([i \in 1..Len(ops) |-> forward_commands(ops[i])])

\* The states of the model. A relation, a rule or an index is absent or has
\* one of its variants; a rule references only relations of its own state.
RelationVariants ==
    [t |-> {<<<<"a", "int">>>>, <<<<"a", "int">>, <<"b", "string">>>>},
     u |-> {<<<<"c", "float">>>>}]

RuleVariants ==
    [r |-> {<<"+r(X) <- t(X)">>, <<"+r(X) <- t(X)", "+r(X) <- u(X)">>},
     q |-> {<<"+q(X) <- u(X)">>}]

IndexVariants ==
    [t_idx |-> {[relation |-> "t", column |-> "a"],
                [relation |-> "t", column |-> "a", metric |-> "euclidean", m |-> "16",
                 ef_construction |-> "100", ef_search |-> "50"]},
     u_idx |-> {[relation |-> "u", column |-> "c"]}]

\* the dicts that give some of the names one of their variants
Dicts(variants) ==
    UNION {{d \in [K -> UNION {variants[k] : k \in K}] : \A k \in K : d[k] \in variants[k]} :
              K \in SUBSET DOMAIN variants}

ReferencedRelations(state) ==
    UNION {ClauseBody(c) : c \in UNION {Range(state.rules[n]) : n \in DOMAIN state.rules}}

ModelStates ==
    {s \in [relations : Dicts(RelationVariants), rules : Dicts(RuleVariants),
            indexes : Dicts(IndexVariants)] :
        ReferencedRelations(s) \subseteq DOMAIN s.relations}

EmptyState == ModelState(EmptyDict, EmptyDict, EmptyDict)

\* cin is the pair of states; cout the operations detected, the commands
\* still to execute, the store, and the round (the second round runs
\* detect_changes back to the empty state).
Diff(kind, round, ops, st) ==
    [kind |-> kind, round |-> round, ops |-> ops, pending |-> ForwardCommands(ops),
     store |-> st]

InitDiff ==
    /\ migrations = <<>>
    /\ InitMigVars
    /\ cin \in [old : ModelStates, new : ModelStates]
    /\ cout = Diff("none", 0, <<>>, StoreOf(cin.old))

\* ops = detect_changes(old, new)
DetectChanges ==
    /\ cout.kind = "none"
    /\ cout' = Diff("ops", 1, detect_changes(cin.old, cin.new), cout.store)
    /\ UNCHANGED <<migVars, cin>>

\* kg.execute(cmd) for the next forward command
ExecuteForward ==
    /\ cout.kind = "ops"
    /\ cout.pending # <<>>
    /\ cout' = [cout EXCEPT !.pending = Tail(@),
                            !.store = store_execute(@, Head(cout.pending))]
    /\ UNCHANGED <<migVars, cin>>

\* After detect_changes(empty, S) is applied: ops = detect_changes(S, empty)
DetectChangesBack ==
    /\ cout.kind = "ops"
    /\ cout.round = 1
    /\ cout.pending = <<>>
    /\ cin.old = EmptyState
    /\ cout' = Diff("ops", 2, detect_changes(cin.new, cin.old), cout.store)
    /\ UNCHANGED <<migVars, cin>>

NextDiff == DetectChanges \/ ExecuteForward \/ DetectChangesBack

SpecDiff == InitDiff /\ [][NextDiff]_vars

-----------------------------------------------------------------------------
(* migrations/state.py to_dict / from_dict, migrations/writer.py, migrations/loader.py *)

\* A column of a state dict is a Python list or a Python tuple of two strings;
\* a column of a ModelState or of an operation is the pair itself (a tuple).
PyList(c) == <<"list">> \o c
PyTuple(c) == <<"tuple">> \o c

\* ModelState.to_dict: [list(c) for c in cols]
to_dict(state) ==
    [relations |-> [n \in DOMAIN state.relations |->
                       [i \in 1..Len(state.relations[n]) |-> PyList(state.relations[n][i])]],
     rules |-> state.rules,
     indexes |-> state.indexes]

\* mutant: the relations of the dict are not read
from_dict_no_relations(d) ==
    ModelState(EmptyDict, Get(d, "rules", EmptyDict), Get(d, "indexes", EmptyDict))

\* ModelState.from_dict: [tuple(c) for c in cols], d.get(key, {})
from_dict(d) ==
    ModelState([n \in DOMAIN Get(d, "relations", EmptyDict) |->
                   [i \in 1..Len(d.relations[n]) |-> Tail(d.relations[n][i])]],
               Get(d, "rules", EmptyDict),
               Get(d, "indexes", EmptyDict))

\* ModelState.is_empty
is_empty(state) ==
    state.relations = EmptyDict /\ state.rules = EmptyDict /\ state.indexes = EmptyDict

DigitChars == <<"0", "1", "2", "3", "4", "5", "6", "7", "8", "9">>

\* the decimal digits of a number
RECURSIVE Digits(_)
Digits(n) ==
    IF n < 10 THEN <<DigitChars[n + 1]>> ELSE Digits(n \div 10) \o <<DigitChars[(n % 10) + 1]>>

\* mutant: the number without padding
Format04d_unpadded(number) == Digits(number)

\* f"{number:04d}": at least four digits, padded with zeros on the left
Format04d(number) ==
    [i \in 1..(4 - Len(Digits(number))) |-> "0"] \o Digits(number)

\* _render_operation: the constructor call of the operation's class
_render_operation(op) == <<"ops." \o OpType(op), OpName(op), OpA(op), OpB(op)>>

\* _render_state: every column is written as ("c", "t"); state.get(key, {})
_render_state(state) ==
    [relations |-> [n \in DOMAIN Get(state, "relations", EmptyDict) |->
                       [i \in 1..Len(state.relations[n]) |->
                           PyTuple(Tail(state.relations[n][i]))]],
     rules |-> Get(state, "rules", EmptyDict),
     indexes |-> Get(state, "indexes", EmptyDict)]

\* generate_migration: the file name, a list of characters and of the
\* strings put between them, and the source of class M
generate_migration(number, operations, state, dependencies, name_suffix) ==
    [filename |-> Format04d(number)
                  \o <<"_", IF name_suffix # None THEN name_suffix
                            ELSE IF number = 1 THEN "initial" ELSE "auto", ".py">>,
     content |-> [dependencies |-> dependencies,
                  operations |-> [i \in 1..Len(operations) |-> _render_operation(operations[i])],
                  state |-> _render_state(state)]]

\* filepath.write_text(content)
write_text(directory, filename, content) == Put(directory, filename, content)

\* _MIGRATION_RE = ^(\d{4})_.+\.py$
MIGRATION_RE_match(filename) ==
    /\ Len(filename) >= 7
    /\ \A i \in 1..4 : filename[i] \in Range(DigitChars)
    /\ filename[5] = "_"
    /\ filename[Len(filename)] = ".py"

DigitValue(c) == (CHOOSE i \in 1..10 : DigitChars[i] = c) - 1

\* int(match.group(1))
GroupNumber(filename) ==
    DigitValue(filename[1]) * 1000 + DigitValue(filename[2]) * 100
    + DigitValue(filename[3]) * 10 + DigitValue(filename[4])

\* entry.stem
Stem(filename) == SubSeq(filename, 1, Len(filename) - 1)

OperationTypes ==
    {"CreateRelation", "DropRelation", "CreateRule", "DropRule", "ReplaceRule",
     "CreateIndex", "DropIndex", "RunDatalog"}

\* exec_module on the source of one operation: the constructor call is made
ExecOperation(src) ==
    Op(CHOOSE t \in OperationTypes : "ops." \o t = src[1], src[2], src[3], src[4])

MigrationInfo(filename, content) ==
    [name |-> Stem(filename), number |-> GroupNumber(filename), filename |-> filename,
     dependencies |-> content.dependencies,
     operations |-> [i \in 1..Len(content.operations) |-> ExecOperation(content.operations[i])],
     state |-> content.state]

\* Python's string order on the name suffixes of the model
SuffixOrder == <<"auto", "custom", "initial">>

\* entry a comes before entry b in sorted(..., key=number) of the sorted entries
Before(a, b) ==
    \/ GroupNumber(a) < GroupNumber(b)
    \/ /\ GroupNumber(a) = GroupNumber(b)
       /\ (CHOOSE i \in 1..3 : SuffixOrder[i] = a[6]) < (CHOOSE i \in 1..3 : SuffixOrder[i] = b[6])

RECURSIVE SortedEntries(_)
SortedEntries(names) ==
    IF names = {} THEN <<>>
    ELSE The({<<first>> \o SortedEntries(names \ {first}) :
                 first \in {f \in names : \A g \in names \ {f} : Before(f, g)}})

load_migrations(directory) ==
    The({[i \in 1..Len(entries) |-> MigrationInfo(entries[i], directory[entries[i]])] :
            entries \in {SortedEntries({f \in DOMAIN directory : MIGRATION_RE_match(f)})}})

get_latest_state(directory) ==
    The({IF ms = <<>> THEN [relations |-> EmptyDict, rules |-> EmptyDict, indexes |-> EmptyDict]
         ELSE ms[Len(ms)].state : ms \in {load_migrations(directory)}})

\* mutant: the number of the latest migration
get_next_number_latest(directory) ==
    The({IF ms = <<>> THEN 1 ELSE ms[Len(ms)].number : ms \in {load_migrations(directory)}})

\* mutant: the number of migration files, plus one
get_next_number_count(directory) == Len(load_migrations(directory)) + 1

get_next_number(directory) ==
    The({IF ms = <<>> THEN 1 ELSE ms[Len(ms)].number + 1 : ms \in {load_migrations(directory)}})

-----------------------------------------------------------------------------
(* Writing one migration file into a directory and loading the directory *)

\* the directory that holds the given files
Directory(files) == [f \in {x.filename : x \in files} |->
                        (CHOOSE x \in files : x.filename = f).content]

FirstName == <<"0", "0", "0", "1", "_", "initial">>

\* The states with both relations, both rules and both indexes, and the empty one
WriteModelStates ==
    {EmptyState} \cup {s \in ModelStates : /\ DOMAIN s.relations = {"t", "u"}
                                          /\ DOMAIN s.rules = {"q", "r"}
                                          /\ DOMAIN s.indexes = {"t_idx", "u_idx"}}

FullState == CHOOSE s \in WriteModelStates : s # EmptyState

\* A directory is a dict from file name to content. The directories of the
\* model: no file, a package file only, and migrations up to number 1, 2 and 5.
PackageFile == [filename |-> <<"__init__", ".py">>,
                content |-> [dependencies |-> <<>>, operations |-> <<>>, state |-> EmptyDict]]

Directories ==
    {Directory({}),
     Directory({PackageFile}),
     Directory({generate_migration(1, <<>>, to_dict(FullState), <<>>, None)}),
     Directory({PackageFile,
                generate_migration(1, <<>>, to_dict(EmptyState), <<>>, None),
                generate_migration(2, <<>>, to_dict(FullState), <<FirstName>>, None)}),
     Directory({generate_migration(1, <<>>, to_dict(EmptyState), <<>>, None),
                generate_migration(5, <<>>, to_dict(FullState), <<FirstName>>, None)})}

\* state dicts as ModelState.to_dict gives them and, as in the tests, with
\* tuple columns
TupleColumns(state) ==
    [to_dict(state) EXCEPT !.relations =
        [n \in DOMAIN state.relations |->
            [i \in 1..Len(state.relations[n]) |-> PyTuple(state.relations[n][i])]]]

WriteNumbers == {1, 2, 9999, 10000}

WriteOperationLists ==
    {<<>>, MigrationPool[1].operations,
     Concat([i \in 1..4 |-> MigrationPool[i].operations])}

WriteArgs ==
    [number : WriteNumbers,
     operations : WriteOperationLists,
     state : {to_dict(s) : s \in WriteModelStates} \cup {TupleColumns(s) : s \in WriteModelStates},
     dependencies : {<<>>, <<FirstName>>},
     name_suffix : {None, "custom"},
     directory : Directories]

InitWrite ==
    /\ migrations = <<>>
    /\ InitMigVars
    /\ cin \in WriteArgs
    /\ cout = [kind |-> "none"]

\* filename, content = generate_migration(...); (directory / filename).write_text(content);
\* then load_migrations(directory) and get_next_number(directory)
WriteMigration ==
    /\ cout.kind = "none"
    /\ cout' = The({[kind |-> "written",
                     filename |-> f.filename,
                     directory |-> write_text(cin.directory, f.filename, f.content),
                     loaded |-> load_migrations(write_text(cin.directory, f.filename, f.content)),
                     next_before |-> get_next_number(cin.directory),
                     next |-> get_next_number(write_text(cin.directory, f.filename, f.content))] :
                    f \in {generate_migration(cin.number, cin.operations, cin.state,
                                              cin.dependencies, cin.name_suffix)}})
    /\ UNCHANGED <<migVars, cin>>

NextWrite == WriteMigration

SpecWrite == InitWrite /\ [][NextWrite]_vars

-----------------------------------------------------------------------------
(* migrations/cli.py: makemigrations *)

MaxRuns == 2    \* runs of makemigrations in a row

\* _cmd_makemigrations on the state that ModelState.from_models builds from
\* the discovered models (empty exactly when no model is found); returns the
\* exit code, the directory, and whether a file was written.
_cmd_makemigrations(models, migrations_dir, name) ==
    IF is_empty(models)
    THEN [code |-> 1, directory |-> migrations_dir, wrote |-> FALSE]
    ELSE The({
        IF operations = <<>>
        THEN [code |-> 0, directory |-> migrations_dir, wrote |-> FALSE]
        ELSE The({[code |-> 0,
                   directory |-> write_text(migrations_dir, f.filename, f.content),
                   wrote |-> TRUE] :
                  f \in {The({generate_migration(
                                  get_next_number(migrations_dir), operations, to_dict(models),
                                  IF ms = <<>> THEN <<>> ELSE <<ms[Len(ms)].name>>, name) :
                              ms \in {load_migrations(migrations_dir)}})}}) :
        operations \in {detect_changes(from_dict(get_latest_state(migrations_dir)), models)}})

\* a migration file whose class M has state = {}
EmptyDictFile ==
    [filename |-> Format04d(1) \o <<"_", "initial", ".py">>,
     content |-> [dependencies |-> <<>>, operations |-> <<>>, state |-> EmptyDict]]

MakeDirectories ==
    Directories
    \cup {Directory({EmptyDictFile}),
          Directory({generate_migration(9999, <<>>, to_dict(FullState), <<>>, None)})}

\* cin: the models, the --name option and the directory at the start;
\* cout: the directory before and after the last run, its exit code, and
\* for each run whether it wrote a file.
InitMake ==
    /\ migrations = <<>>
    /\ InitMigVars
    /\ cin \in [models : ModelStates, name : {None, "custom"}, directory : MakeDirectories]
    /\ cout = [kind |-> "make", before |-> cin.directory, directory |-> cin.directory,
               code |-> 0, wrote |-> <<>>]

MakeMigrations ==
    /\ Len(cout.wrote) < MaxRuns
    /\ cout' = The({[kind |-> "make", before |-> cout.directory, directory |-> r.directory,
                     code |-> r.code, wrote |-> Append(cout.wrote, r.wrote)] :
                    r \in {_cmd_makemigrations(cin.models, cout.directory, cin.name)}})
    /\ UNCHANGED <<migVars, cin>>

NextMake == MakeMigrations

SpecMake == InitMake /\ [][NextMake]_vars

-----------------------------------------------------------------------------
(* makemigrations run again and again, the models changing between runs *)

MaxSeqRuns == 3    \* runs of makemigrations on the directory

\* the models of the runs: none, and three states that differ from each other
SeqModels ==
    {EmptyState, FullState,
     ModelState([t |-> <<<<"a", "int">>>>], EmptyDict, EmptyDict),
     ModelState([t |-> <<<<"a", "int">>>>], [r |-> <<"+r(X) <- t(X)">>], EmptyDict)}

InitSeq ==
    /\ migrations = <<>>
    /\ InitMigVars
    /\ cin = [models |-> EmptyState, name |-> None]
    /\ cout = [kind |-> "seq", directory |-> Directory({}), code |-> 0, runs |-> 0]

RunMakeMigrations ==
    \E models \in SeqModels, name \in {None, "custom"} :
        /\ cout.runs < MaxSeqRuns
        /\ cin' = [models |-> models, name |-> name]
        /\ cout' = The({[kind |-> "seq", directory |-> r.directory, code |-> r.code,
                         runs |-> cout.runs + 1] :
                        r \in {_cmd_makemigrations(models, cout.directory, name)}})
        /\ UNCHANGED migVars

NextSeq == RunMakeMigrations

SpecSeq == InitSeq /\ [][NextSeq]_vars

-----------------------------------------------------------------------------
(* connection.py and notifications.py: one socket, execute and the receive loop *)

MaxExecutes == 2    \* execute calls on the connection
MaxPushes == 2      \* notifications and pongs the server sends on its own

\* A server message is <<type, text, rows>>.
Msg(type, text, data) == <<type, text, data>>
MsgType(m) == m[1]

\* NotificationEvent: its type and seq
Notification(type, seq) == Msg("notification", type, <<ToString(seq)>>)
Pong == Msg("pong", "", <<>>)

\* ResultResponse(columns, rows)
ResultResponse(columns, data) == Msg("result", columns, data)

\* the replies of the server to the k-th execute: a result, an error, or a
\* result streamed as start, chunk, end
Replies(k) ==
    {<<ResultResponse("x", <<ToString(k)>>)>>,
     <<Msg("error", "relation not found", <<>>)>>,
     <<Msg("result_start", "x", <<>>), Msg("result_chunk", "", <<ToString(k)>>),
       Msg("result_end", "", <<>>)>>}

\* dispatcher.on(...): (event_type, callback), relation and knowledge_graph None
Callbacks == <<<<"persistent_update", "on_update">>, <<None, "on_any">>>>

\* NotificationDispatcher.dispatch: last_seq, then the matching callbacks in
\* the order of registration
dispatch(conn, m) ==
    [conn EXCEPT !.dispatched =
        @ \o SelectSeq([i \in 1..Len(Callbacks) |->
                           IF Callbacks[i][1] # None /\ m[2] # Callbacks[i][1]
                           THEN <<>> ELSE <<Callbacks[i][2], m[3][1]>>],
                       LAMBDA e : e # <<>>)]

\* one message in _read_result
_read_result(conn, m) ==
    CASE MsgType(m) = "notification" -> dispatch(conn, m)
      [] MsgType(m) = "pong" -> conn
      [] MsgType(m) = "result" -> [conn EXCEPT !.exec = "returned", !.value = m]
      [] MsgType(m) = "error" ->
            [conn EXCEPT !.exec = "returned", !.value = ResultResponse("error", <<m[2]>>)]
      [] MsgType(m) = "result_start" ->
            [conn EXCEPT !.exec = "streaming", !.value = ResultResponse(m[2], <<>>)]
      [] OTHER -> [conn EXCEPT !.exec = "raised", !.raised = "InternalError"]

\* one message in _assemble_stream
_assemble_stream(conn, m) ==
    CASE MsgType(m) = "notification" -> dispatch(conn, m)
      [] MsgType(m) = "result_chunk" ->
            [conn EXCEPT !.value = ResultResponse(@[2], @[3] \o m[3])]
      [] MsgType(m) = "result_end" -> [conn EXCEPT !.exec = "returned"]
      [] OTHER -> [conn EXCEPT !.exec = "raised", !.raised = "InternalError"]

\* one message in _receive_loop: a notification is dispatched, anything else
\* is dropped
_receive_loop(conn, m) ==
    IF MsgType(m) = "notification" THEN dispatch(conn, m)
    ELSE [conn EXCEPT !.dropped = Append(@, m)]

\* After connect(): authenticated, the receive loop started. cout is the
\* connection (with the socket's unread messages), cin what the server was
\* asked and has sent.
InitConn ==
    /\ migrations = <<>>
    /\ InitMigVars
    /\ cin = [requests |-> 0, answered |-> 0, pushes |-> 0, sent |-> <<>>]
    /\ cout = [kind |-> "conn", connected |-> TRUE, inbox |-> <<>>, exec |-> "idle",
               value |-> <<>>, raised |-> "none", dispatched |-> <<>>, dropped |-> <<>>]

\* conn.execute(program): the program is sent
Execute ==
    /\ cout.exec \in {"idle", "returned"}
    /\ cout.connected
    /\ cin.requests < MaxExecutes
    /\ cin' = [cin EXCEPT !.requests = @ + 1]
    /\ cout' = [cout EXCEPT !.exec = "waiting", !.value = <<>>]
    /\ UNCHANGED migVars

\* the server answers the execute
ServerReply ==
    \E reply \in Replies(cin.requests) :
        /\ cin.answered < cin.requests
        /\ cin' = [cin EXCEPT !.answered = @ + 1, !.sent = @ \o reply]
        /\ cout' = [cout EXCEPT !.inbox = @ \o reply]
        /\ UNCHANGED migVars

\* the server sends a notification or a pong
ServerPush ==
    \E m \in {Notification(t, cin.pushes + 1) : t \in {"persistent_update", "rule_change"}}
             \cup {Pong} :
        /\ cin.pushes < MaxPushes
        /\ cin' = [cin EXCEPT !.pushes = @ + 1, !.sent = Append(@, m)]
        /\ cout' = [cout EXCEPT !.inbox = Append(@, m)]
        /\ UNCHANGED migVars

\* raw = await self._ws.recv() in execute, and what follows up to the next await
ExecuteReceive ==
    /\ cout.exec \in {"waiting", "streaming"}
    /\ cout.inbox # <<>>
    /\ cout' = The({IF cout.exec = "waiting" THEN _read_result(c, Head(cout.inbox))
                    ELSE _assemble_stream(c, Head(cout.inbox)) :
                    c \in {[cout EXCEPT !.inbox = Tail(@)]}})
    /\ UNCHANGED <<migVars, cin>>

\* async for raw in self._ws, in the task that connect() started: the same
\* socket is read by the loop whether or not an execute is waiting
LoopReceive ==
    /\ cout.connected
    /\ cout.inbox # <<>>
    /\ cout' = The({_receive_loop(c, Head(cout.inbox)) : c \in {[cout EXCEPT !.inbox = Tail(@)]}})
    /\ UNCHANGED <<migVars, cin>>

\* The other outcome of two coroutines in recv() on one socket: the library
\* refuses the second one, and execute ends with its exception.
ExecuteRecvRefused ==
    /\ cout.exec = "waiting"
    /\ cout.connected
    /\ cout' = [cout EXCEPT !.exec = "raised", !.raised = "ConcurrencyError"]
    /\ UNCHANGED <<migVars, cin>>

NextConn ==
    Execute \/ ServerReply \/ ServerPush \/ ExecuteReceive \/ LoopReceive \/ ExecuteRecvRefused

SpecConn == InitConn /\ [][NextConn]_vars

\* The server and the two coroutines are scheduled whenever they can run.
SpecConnLive ==
    /\ SpecConn
    /\ WF_vars(ServerReply)
    /\ WF_vars(ExecuteReceive)
    /\ WF_vars(LoopReceive)

-----------------------------------------------------------------------------
-----------------------------------------------------------------------------
(* Applying and reverting the migration of detect_changes on a naive store *)

\* A naive store keeps what each command says and nothing else: the column
\* list of each relation, the clauses of each rule in the order they were
\* added, the parameters of each index.
NaiveStore(relations, rules, indexes) ==
    [relations |-> relations, rules |-> rules, indexes |-> indexes]

Without(d, k) == [x \in (DOMAIN d) \ {k} |-> d[x]]

\* the naive store that holds a state
NaiveStoreOf(state) ==
    NaiveStore([n \in DOMAIN state.relations |->
                   [i \in 1..Len(state.relations[n]) |->
                       state.relations[n][i][1] \o ": " \o state.relations[n][i][2]]],
               [n \in DOMAIN state.rules |-> state.rules[n]],
               [n \in DOMAIN state.indexes |-> IndexInfoParams(state.indexes[n])])

\* one command on the naive store
naive_execute(st, cmd) ==
    CASE CmdKind(cmd) = "schema" ->
            [st EXCEPT !.relations = Put(@, CmdName(cmd), CmdArgs(cmd))]
      [] CmdKind(cmd) = "rel_drop" -> [st EXCEPT !.relations = Without(@, CmdName(cmd))]
      [] CmdKind(cmd) = "rule_drop" -> [st EXCEPT !.rules = Without(@, CmdName(cmd))]
      [] CmdKind(cmd) = "text" ->
            [st EXCEPT !.rules = Put(@, ClauseHead(CmdName(cmd)),
                                     Append(Get(@, ClauseHead(CmdName(cmd)), <<>>),
                                            CmdName(cmd)))]
      [] CmdKind(cmd) = "index_create" ->
            [st EXCEPT !.indexes = Put(@, CmdName(cmd), CmdArgs(cmd))]
      [] CmdKind(cmd) = "index_drop" -> [st EXCEPT !.indexes = Without(@, CmdName(cmd))]

\* the commands of a call, in order, on the naive store
RECURSIVE naive_run(_, _)
naive_run(st, cmds) ==
    IF cmds = <<>> THEN st ELSE naive_run(naive_execute(st, Head(cmds)), Tail(cmds))

\* the migration whose operations are detect_changes(old, new)
DetectedMigration(old, new) ==
    [name |-> "0001_initial", operations |-> detect_changes(old, new)]

\* cin is the pair of states; cout the step reached, the commands the last
\* call handed to kg.execute, and the store after them.
Naive(step, cmds, st) == [kind |-> "naive", step |-> step, commands |-> cmds, store |-> st]

InitNaive ==
    /\ migrations = <<>>
    /\ InitMigVars
    /\ cin \in [old : ModelStates, new : ModelStates]
    /\ cout = Naive("start", <<>>, NaiveStoreOf(cin.old))

\* apply_migration(kg, migration) on the store that holds old
ApplyDetected ==
    /\ cout.step = "start"
    /\ cout' = The({Naive("applied", kg.commands, naive_run(cout.store, kg.commands)) :
                      kg \in {apply_migration(NewKG({}, 0, "raise"),
                                              DetectedMigration(cin.old, cin.new))}})
    /\ UNCHANGED <<migVars, cin>>

\* revert_migration(kg, migration) after it was applied
RevertDetected ==
    /\ cout.step = "applied"
    /\ cout' = The({Naive("reverted", kg.commands, naive_run(cout.store, kg.commands)) :
                      kg \in {revert_migration(NewKG({}, 0, "raise"),
                                               DetectedMigration(cin.old, cin.new))}})
    /\ UNCHANGED <<migVars, cin>>

NextNaive == ApplyDetected \/ RevertDetected

SpecNaive == InitNaive /\ [][NextNaive]_vars

-----------------------------------------------------------------------------
(* compiler.py: compile_conditional_delete *)

\* vars_ = [f"X{i}" for i in range(len(columns))]
PositionVars(columns) == [i \in 1..Len(columns) |-> "X" \o ToString(i - 1)]

\* env._map[f"{name}.{col}"] = vars_[i], for every column of the relation
PositionEnv(name, columns) ==
    [VarEnv EXCEPT !.map = [k \in {name \o "." \o columns[i] : i \in 1..Len(columns)} |->
                               PositionVars(columns)[CHOOSE i \in 1..Len(columns) :
                                                        k = name \o "." \o columns[i]]]]

\* What compile_conditional_delete returns: the rule text (kind "delete") with
\* the variables of its head, those of its body atom and its condition
\* literals, or an exception (kind "raise").
DeleteRule(kind, value, head, atom, literals, exc) ==
    [kind |-> kind, value |-> value, head |-> head, atom |-> atom, literals |-> literals,
     raised |-> exc]

\* compile_conditional_delete(relation_cls, condition)
compile_conditional_delete(name, condition) ==
    LET columns == Columns(name)
        vars_ == PositionVars(columns)
        head == "-" \o name \o "(" \o Join(vars_, ", ") \o ")"
        body_rel == name \o "(" \o Join(vars_, ", ") \o ")"
    IN The({IF c.raised # "none" THEN DeleteRule("raise", "", <<>>, <<>>, <<>>, c.raised)
            ELSE DeleteRule("delete",
                            head \o " <- " \o Join(<<body_rel>> \o Texts(NonEmpty(c.parts)), ", "),
                            vars_, vars_, NonEmpty(c.parts), "none") :
               c \in {compile_bool_expr(condition, PositionEnv(name, columns))}})

-----------------------------------------------------------------------------
(* compile_conditional_delete on the conditions of the model *)

\* The comparisons of a delete condition on employee: an equality of two
\* columns and three filters.
DeleteComparisons ==
    { Comparison("=", employee_id, employee_dept_id),
      Comparison("=", employee_id, Literal(1)),
      Comparison("<", employee_dept_id, Literal(2)),
      Comparison("<", employee_salary, Literal(2)) }

\* The delete conditions with exactly n connectives (&, |, ~).
RECURSIVE DeleteExprs(_)
DeleteExprs(n) ==
    IF n = 0 THEN DeleteComparisons
    ELSE {Not(e) : e \in DeleteExprs(n - 1)}
         \cup UNION {{And(l, r) : l \in DeleteExprs(i), r \in DeleteExprs(n - 1 - i)} :
                        i \in 0..(n - 1)}
         \cup UNION {{Or(l, r) : l \in DeleteExprs(i), r \in DeleteExprs(n - 1 - i)} :
                        i \in 0..(n - 1)}

DeleteConditions == UNION {DeleteExprs(n) : n \in 0..MaxConnectives}

NotDeleted == DeleteRule("none", "", <<>>, <<>>, <<>>, "none")

InitDel ==
    /\ migrations = <<>>
    /\ InitMigVars
    /\ cin \in [relation : {"employee"}, condition : DeleteConditions]
    /\ cout = NotDeleted

\* compile_conditional_delete(Employee, condition)
CompileConditionalDelete ==
    /\ cout = NotDeleted
    /\ cout' = compile_conditional_delete(cin.relation, cin.condition)
    /\ UNCHANGED <<migVars, cin>>

NextDel == CompileConditionalDelete

SpecDel == InitDel /\ [][NextDel]_vars

-----------------------------------------------------------------------------
(* knowledge_graph.py: KnowledgeGraph.query *)

MaxRows == 3        \* rows the server holds for a query without a limit clause

\* lines 232-251: a Relation class in select joins relations unless it is there
RECURSIVE query_relations(_, _)
query_relations(relations, select) ==
    IF select = <<>> THEN relations
    ELSE IF NodeType(Head(select)) = "Relation"
              /\ ~\E i \in 1..Len(relations) : relations[i] = RelEntry(Head(select)[2], None)
         THEN query_relations(Append(relations, RelEntry(Head(select)[2], None)), Tail(select))
         ELSE query_relations(relations, Tail(select))

\* The rows a server returns for an emitted query: as many as it finds, and
\* no more than the query's limit clause allows. A row is known by its number.
RowsOf(n) == [i \in 1..n |-> i]

\* the N of the query's limit(N) clause
LimitOf(q) == CHOOSE n \in 0..(MaxLimit + 1) : q.limit = <<"limit(" \o ToString(n) \o ")">>

ServerRows(q) == {RowsOf(n) : n \in 0..(IF q.limit # <<>> THEN LimitOf(q) ELSE MaxRows)}

\* the answers of the server to the queries, one list of rows per query
RECURSIVE ServerAnswers(_)
ServerAnswers(queries) ==
    IF queries = <<>> THEN {<<>>}
    ELSE {<<rs>> \o rest : rs \in ServerRows(Head(queries)), rest \in ServerAnswers(Tail(queries))}

\* What query returns: ResultSet(columns, rows) (kind "rows") or an exception
\* (kind "raise"); datalog holds the compiled queries.
ResultSet(kind, datalog, all_rows, exc) ==
    [kind |-> kind, datalog |-> datalog, rows |-> all_rows, raised |-> exc]

\* lines 296-305: compile_query with the relations of the call; the on- and
\* where-callables are only called when relations is not empty
query_datalog(select, join, on, where, limit) ==
    LET relations == query_relations(join, select)
    IN compile_query(select, relations,
                     IF relations # <<>> THEN on ELSE Absent,
                     IF relations # <<>> THEN where ELSE Absent,
                     limit)

\* lines 307-316 and 317-330: the rows of the one result, or of all results
\* of an OR split, one after the other
query_result(datalog, answers) ==
    IF datalog.kind = "raise" THEN ResultSet("raise", datalog, <<>>, datalog.raised)
    ELSE IF datalog.kind = "list" THEN ResultSet("rows", datalog, Concat(answers), "none")
    ELSE ResultSet("rows", datalog, answers[1], "none")

NotQueried == ResultSet("none", NotCompiled, <<>>, "none")

InitQuery ==
    /\ migrations = <<>>
    /\ InitMigVars
    /\ cin \in QueryArgs
    /\ cout = NotQueried

\* kg.query(*select, join=..., on=..., where=..., limit=...)
KGQuery ==
    /\ cout = NotQueried
    /\ cout' \in The({{query_result(datalog, answers) : answers \in ServerAnswers(datalog.queries)} :
                        datalog \in {query_datalog(cin.select, cin.relations, cin.on_condition,
                                                   cin.where_condition, cin.limit)}})
    /\ UNCHANGED <<migVars, cin>>

NextQuery == KGQuery

SpecQuery == InitQuery /\ [][NextQuery]_vars

(* Vocabulary of the properties *)

ListNames(ms) == [i \in 1..Len(ms) |-> ms[i].name]

IsRecorderCmd(c) == CmdName(c) = MIGRATION_RELATION

\* The commands of a log that are not the recorder's own.
RECURSIVE MigrationCmds(_)
MigrationCmds(log) ==
    IF log = <<>> THEN <<>>
    ELSE IF IsRecorderCmd(Head(log)) THEN MigrationCmds(Tail(log))
    ELSE <<Head(log)>> \o MigrationCmds(Tail(log))

\* What a call that applies or reverts nothing hands to the executor.
RecorderOnly == <<EnsureSchemaCmd, GetAppliedCmd>>

\* The forward commands of a migration: operations in declaration order.
AllForward(m) ==
    Concat([i \in 1..Len(m.operations) |-> forward_commands(m.operations[i])])

\* Its backward commands: operations in reverse declaration order.
AllBackward(m) ==
    Concat([i \in 1..Len(m.operations) |->
                backward_commands(m.operations[Len(m.operations) + 1 - i])])

\* The position of the migration named n in the list (names are distinct).
PositionOf(ms, n) == CHOOSE i \in 1..Len(ms) : ms[i].name = n

\* The migrations of ms at positions above idx whose names are in applied,
\* listed from the last position down.
RECURSIVE NewestFirst(_, _, _, _)
NewestFirst(ms, idx, applied, i) ==
    IF i <= idx THEN <<>>
    ELSE IF ms[i].name \in applied
         THEN <<ms[i]>> \o NewestFirst(ms, idx, applied, i - 1)
         ELSE NewestFirst(ms, idx, applied, i - 1)

\* The migrations of ms whose names are not in applied, in list order.
RECURSIVE Unapplied(_, _)
Unapplied(ms, applied) ==
    IF ms = <<>> THEN <<>>
    ELSE IF Head(ms).name \in applied THEN Unapplied(Tail(ms), applied)
    ELSE <<Head(ms)>> \o Unapplied(Tail(ms), applied)

CleanMigrateAll == call.op = "migrate" /\ call.target = None /\ call.failAt = 0

CleanRevertTo == call.op = "revert_to" /\ call.failAt = 0

\* compile_query has returned text (a string or a list of strings).
Compiled == cout.kind \in {"str", "list"}

\* The occurrences <<key, var>> of column variables in the returned text.
EmittedOccs(r) ==
    UNION {Occs(r.queries[i].head) \cup Occs(r.queries[i].atoms) \cup Occs(r.queries[i].literals) :
              i \in 1..Len(r.queries)}

\* The Or nodes of a condition that only Or nodes separate from its root.
RECURSIVE SpineOrs(_)
SpineOrs(e) == IF NodeType(e) = "Or" THEN 1 + SpineOrs(e[2]) + SpineOrs(e[3]) ELSE 0

\* The operands below those Or nodes, from left to right.
RECURSIVE SpineLeaves(_)
SpineLeaves(e) ==
    IF NodeType(e) = "Or" THEN SpineLeaves(e[2]) \o SpineLeaves(e[3]) ELSE <<e>>

\* The keys of the columns that the comparisons of a condition other than
\* Column = Column equalities mention.
RECURSIVE FilterKeys(_)
FilterKeys(e) ==
    CASE NodeType(e) = "Comparison" ->
            IF e[2] = "=" /\ NodeType(e[3]) = "Column" /\ NodeType(e[4]) = "Column" THEN {}
            ELSE {Key(x) : x \in {y \in {e[3], e[4]} : NodeType(y) = "Column"}}
      [] NodeType(e) = "Not" -> FilterKeys(e[2])
      [] OTHER -> FilterKeys(e[2]) \cup FilterKeys(e[3])

\* The literals an Or-free condition compiles to: one per comparison, a
\* negation being one literal.
RECURSIVE NumLiterals(_)
NumLiterals(e) ==
    IF NodeType(e) = "And" THEN NumLiterals(e[2]) + NumLiterals(e[3]) ELSE 1

RECURSIVE Pow2(_)
Pow2(k) == IF k = 0 THEN 1 ELSE 2 * Pow2(k - 1)

\* The relations a query involves: those listed in relations= and those of
\* the columns, classes and aggregated columns in select.
InvolvedRelations(args) ==
    {args.relations[i][1] : i \in 1..Len(args.relations)}
    \cup {CASE NodeType(args.select[i]) = "Column" -> ColRelation(args.select[i])
            [] NodeType(args.select[i]) = "Relation" -> args.select[i][2]
            [] NodeType(args.select[i]) = "AggExpr" -> ColRelation(args.select[i][3]) :
              i \in 1..Len(args.select)}

\* The variable a column resolves to in an environment, None when it has none.
Resolved(env, col) == Get(env.map, Root(env, Key(col)), None)

-----------------------------------------------------------------------------
(* C1 .. C8: migrate, revert_to, apply_migration, the recorder *)

\* C1: a migrate without target on a store where no migration of the list is
\* recorded applies every migration (all their forward commands, in list
\* order), records each and returns the names in list order; it leaves every
\* migration recorded, and a migrate without target that finds every migration
\* recorded (as a second call does) returns [], issues only the recorder's two
\* commands and leaves the store as it was.
C1_MigrateAllThenNothing ==
    CleanMigrateAll =>
        /\ raised = "none"
        /\ Names(migrations) \subseteq AppliedNames(rows)
        /\ (AppliedNames(pre) \cap Names(migrations) = {}) =>
              /\ result = ListNames(migrations)
              /\ MigrationCmds(commands) =
                    Concat([i \in 1..Len(migrations) |-> AllForward(migrations[i])])
        /\ (Names(migrations) \subseteq AppliedNames(pre)) =>
              /\ result = <<>>
              /\ commands = RecorderOnly
              /\ rows = pre

\* a second migrate on a list of two or more migrations, all recorded by then
C1_Witness ==
    /\ CleanMigrateAll
    /\ Len(migrations) >= 2
    /\ Names(migrations) \subseteq AppliedNames(pre)
    /\ result = <<>>

\* C2: migrate with a target that is in the list and not yet recorded applies
\* and records the unapplied migrations up to and including the target, in
\* list order, and returns their names: the target is the last of them.
C2_TargetIsApplied ==
    (/\ call.op = "migrate"
     /\ call.failAt = 0
     /\ call.target \in Names(migrations)
     /\ call.target \notin AppliedNames(pre)) =>
        /\ raised = "none"
        /\ result =
             ListNames(Unapplied(SubSeq(migrations, 1, PositionOf(migrations, call.target)),
                                 AppliedNames(pre)))
        /\ result # <<>>
        /\ result[Len(result)] = call.target
        /\ call.target \in AppliedNames(rows)

\* C3: revert_to with a target of the list reverts exactly the migrations that
\* are recorded and positioned after the target, the last in the list first:
\* for each its backward commands and then the removal of its record; it
\* returns their names in that order and leaves the other records alone.
\* With 0001_initial and 0002_auto both recorded, revert_to("0001_initial")
\* returns ["0002_auto"] and the recorder then lists ["0001_initial"].
C3_RevertToNewestFirst ==
    (CleanRevertTo /\ call.target \in Names(migrations)) =>
        LET idx == PositionOf(migrations, call.target)
            expected == NewestFirst(migrations, idx, AppliedNames(pre), Len(migrations))
        IN /\ raised = "none"
           /\ result = ListNames(expected)
           /\ commands = RecorderOnly \o
                 Concat([i \in 1..Len(expected) |->
                            AllBackward(expected[i]) \o <<RecordRevertedCmd(expected[i].name)>>])
           /\ rows = {r \in pre : r[1] \notin Names(expected)}
           /\ (/\ ListNames(migrations) = <<"0001_initial", "0002_auto">>
               /\ AppliedNames(pre) = {"0001_initial", "0002_auto"}
               /\ call.target = "0001_initial") =>
                 /\ result = <<"0002_auto">>
                 /\ get_applied(NewKG(rows, 0, "none")).value = <<"0001_initial">>

\* a revert_to that reverted two migrations
C3_Witness ==
    /\ CleanRevertTo
    /\ call.target \in Names(migrations)
    /\ Len(result) = 2
    /\ Len(MigrationCmds(commands)) >= 4

\* C4: when a forward command of a migration fails during migrate, by raising
\* or by an error result, nothing more is handed to the executor (no later
\* command, no compensating command) and the migration is not recorded.
C4_FailureAbortsMigration ==
    (/\ call.op = "migrate"
     /\ call.failAt > 0
     /\ ~IsRecorderCmd(commands[call.failAt])) =>
        LET done == Len(SelectSeq(SubSeq(commands, 1, call.failAt), IsRecorderCmd)) - 2
            m == Unapplied(migrations, AppliedNames(pre))[done + 1]
        IN /\ Len(commands) = call.failAt
           /\ m.name \notin AppliedNames(rows)

\* C5: revert_to with a target that no migration of the list has fails with
\* MigrationError, hands the executor only the recorder's two commands and
\* leaves the recorded names as they were.
C5_UnknownTargetRaises ==
    (CleanRevertTo /\ call.target \notin Names(migrations)) =>
        /\ raised = "MigrationError"
        /\ result = <<>>
        /\ commands = RecorderOnly
        /\ rows = pre

\* an unknown target, with migrations recorded that a revert could have touched
C5_Witness ==
    /\ CleanRevertTo
    /\ call.target \notin Names(migrations)
    /\ Len(migrations) >= 2
    /\ Names(migrations) \subseteq AppliedNames(pre)
    /\ raised = "MigrationError"

\* C6: a revert_to that finds no recorded migration after its target returns
\* [], hands the executor only the recorder's two commands and removes no
\* record; and every revert_to leaves no recorded migration after its target,
\* so that a second one with the same target is such a call.
C6_RevertToNothingNewer ==
    (CleanRevertTo /\ call.target \in Names(migrations)) =>
        LET idx == PositionOf(migrations, call.target)
            later(rs) == {i \in (idx + 1)..Len(migrations) : migrations[i].name \in AppliedNames(rs)}
        IN /\ later(rows) = {}
           /\ (later(pre) = {}) =>
                 /\ raised = "none"
                 /\ result = <<>>
                 /\ commands = RecorderOnly
                 /\ rows = pre

\* a revert_to to a recorded target that is not the last of the list, with
\* nothing after it recorded
C6_Witness ==
    /\ CleanRevertTo
    /\ call.target \in Names(migrations)
    /\ call.target \in AppliedNames(pre)
    /\ PositionOf(migrations, call.target) < Len(migrations)
    /\ result = <<>>
    /\ rows = pre

\* C7: apply_migration hands the executor exactly the forward commands of the
\* migration, operation by operation in declaration order and each
\* operation's commands in their order; revert_migration exactly the backward
\* commands, the operations taken from the last to the first.
C7_CommandOrder ==
    LET ops == migrations[1].operations
        n == Len(ops)
        fwd(i) == forward_commands(ops[i])
        bwd(i) == backward_commands(ops[n + 1 - i])
        RECURSIVE offF(_), offB(_)
        offF(i) == IF i = 1 THEN 0 ELSE offF(i - 1) + Len(fwd(i - 1))
        offB(i) == IF i = 1 THEN 0 ELSE offB(i - 1) + Len(bwd(i - 1))
    IN /\ (call.op = "apply_migration" /\ call.failAt = 0) =>
            /\ Len(commands) = offF(n + 1)
            /\ \A i \in 1..n : \A j \in 1..Len(fwd(i)) : commands[offF(i) + j] = fwd(i)[j]
       /\ (call.op = "revert_migration" /\ call.failAt = 0) =>
            /\ Len(commands) = offB(n + 1)
            /\ \A i \in 1..n : \A j \in 1..Len(bwd(i)) : commands[offB(i) + j] = bwd(i)[j]

\* a revert of two different operations, one of them with several commands
C7_Witness ==
    /\ call.op = "revert_migration"
    /\ call.failAt = 0
    /\ Len(migrations[1].operations) = 2
    /\ migrations[1].operations[1] # migrations[1].operations[2]
    /\ Len(commands) >= 3

\* C8: get_applied returns the recorded names in ascending order, each once.
C8_GetAppliedSortedDistinct ==
    (call.op = "get_applied") =>
        /\ Range(result) = AppliedNames(pre)
        /\ \A i \in 1..(Len(result) - 1) : Rank(result[i]) < Rank(result[i + 1])

-----------------------------------------------------------------------------
(* C9, C10: compile_query *)

\* C9: in the text compile_query returns, any two occurrences of columns that
\* a Column = Column equality has unified (the environment holds them under
\* one root) carry the same variable name, in the head, in the body atoms and
\* in the condition literals, those emitted before the equality included.
C9_UnifiedColumnsShareVariable ==
    Compiled =>
        \A o1, o2 \in EmittedOccs(cout) :
            Root(cout.env, o1[1]) = Root(cout.env, o2[1]) => o1[2] = o2[2]

\* C10: for a where-condition with an Or anywhere in it, compile_query returns
\* a list of two or more query strings, one per branch: each has the same
\* head and body atoms, then the branch's literals, then the limit clause; it
\* does not raise and does not return one query without the condition.
C10_OrSplitsIntoQueries ==
    (cout # NotCompiled /\ cin.where_condition # Absent /\ _has_or(cin.where_condition)) =>
        /\ cout.kind = "list"
        /\ Len(cout.queries) >= 2
        /\ \A i \in 1..Len(cout.queries) :
              /\ cout.queries[i].head = cout.queries[1].head
              /\ cout.queries[i].atoms = cout.queries[1].atoms
              /\ cout.queries[i].limit = limit_clause(cin.limit)
              /\ cout.value[i] = RenderBranch(cout.queries[i])

-----------------------------------------------------------------------------
(* C11 .. C13: compile_or_branches, body atoms, variable names *)

\* C11 as stated: when compile_or_branches returns, it returns 2^k branches,
\* k being the number of Or nodes on the root spine of the condition.
C11_TwoToTheKBranches ==
    (cout.kind = "branches") => Len(cout.branches) = Pow2(SpineOrs(cin.where_condition))

\* C11 as amended: compile_or_branches raises ValueError when an operand below
\* the root spine's Or nodes contains an Or itself; otherwise it returns k + 1
\* branches, k being the number of Or nodes on the root spine: one branch per
\* operand, in left-to-right order, holding that operand's literals.
C11_SpineLeavesInOrder ==
    (cout.kind # "none") =>
        LET leaves == SpineLeaves(cin.where_condition) IN
        IF \E i \in 1..Len(leaves) : _has_or(leaves[i])
        THEN cout.kind = "raise" /\ cout.raised = "ValueError"
        ELSE /\ cout.kind = "branches"
             /\ Len(cout.branches) = SpineOrs(cin.where_condition) + 1
             /\ Len(cout.branches) = Len(leaves)
             /\ \A i \in 1..Len(leaves) :
                   /\ Len(cout.branches[i]) = NumLiterals(leaves[i])
                   /\ {o[1] : o \in Occs(cout.branches[i])} = FilterKeys(leaves[i])

\* an Or of an Or: three branches from two Or nodes, the operands differing
C11_Witness ==
    /\ cout.kind = "branches"
    /\ SpineOrs(cin.where_condition) = 2
    /\ Len(cout.branches) = 3
    /\ Occs(cout.branches[1]) # Occs(cout.branches[3])

\* C12: every query compile_query emits has one body atom per relation the
\* query involves, a relation that only a selected column implies included;
\* so every variable of the head occurs, for the same column, in a body atom.
C12_HeadVariablesInBody ==
    Compiled =>
        \A i \in 1..Len(cout.queries) :
            /\ Len(cout.queries[i].atoms) = Cardinality(InvolvedRelations(cin))
            /\ Occs(cout.queries[i].head) \subseteq Occs(cout.queries[i].atoms)

\* C13: in an environment reached by get_var and unify calls, two columns
\* under different union-find roots never resolve to the same variable; and a
\* call that hands out a new variable names it after its (first) column,
\* capitalized, with the suffix _N when that name is already in use, N being
\* the counter's next value, and without touching the counter otherwise.
C13_DistinctRootsDistinctNames ==
    /\ \A c1, c2 \in EnvColumns :
          (/\ Root(cout.env, Key(c1)) # Root(cout.env, Key(c2))
           /\ Resolved(cout.env, c1) # None) =>
              Resolved(cout.env, c1) # Resolved(cout.env, c2)
    /\ (cin.op # "none") =>
          LET base == column_to_variable(ColName(cin.a))
              N == cout.before.counter + 1
          IN /\ cout.var = Resolved(cout.env, cin.a)
             /\ IF cout.var \in Values(cout.before.map)
                THEN cout.env.counter = cout.before.counter
                ELSE IF base \in Values(cout.before.map)
                THEN cout.var = base \o "_" \o ToString(N) /\ cout.env.counter = N
                ELSE cout.var = base /\ cout.env.counter = cout.before.counter

\* the third column named id gets Id_2 while two of the columns are unified
C13_Witness ==
    /\ cout.var = "Id_2"
    /\ cout.env.counter = 2
    /\ \E c1, c2 \in EnvColumns :
          c1 # c2 /\ Root(cout.env, Key(c1)) = Root(cout.env, Key(c2))

-----------------------------------------------------------------------------
(* C14 .. C17: detect_changes *)

\* a rule of the store references a relation the store does not have
Dangling(st) ==
    \E n \in DOMAIN st.rules : \E c \in st.rules[n] : ~(ClauseBody(c) \subseteq st.relations)

\* C14: while the forward commands of detect_changes(old, new) are executed
\* in order on a store holding old, no rule is ever defined while a relation
\* it references does not exist.
C14_NoDanglingRule == (cout.round <= 1) => ~Dangling(cout.store)

\* The phase of the autodetector an operation belongs to, read off its type
\* and whether its name is in the old and in the new state.
Phase(op, old, new) ==
    CASE OpType(op) = "CreateRelation" -> IF OpName(op) \in DOMAIN old.relations THEN 2 ELSE 1
      [] OpType(op) = "DropRelation" -> IF OpName(op) \in DOMAIN new.relations THEN 2 ELSE 6
      [] OpType(op) = "DropRule" -> 3
      [] OpType(op) = "ReplaceRule" -> 4
      [] OpType(op) = "CreateRule" -> 5
      [] OpType(op) = "DropIndex" -> IF OpName(op) \in DOMAIN new.indexes THEN 8 ELSE 7
      [] OpType(op) = "CreateIndex" -> IF OpName(op) \in DOMAIN old.indexes THEN 8 ELSE 9

NameRank(n) == CHOOSE i \in 1..Len(NameOrder) : NameOrder[i] = n

\* the operations the two states call for, as a set
ExpectedOps(old, new) ==
    {CreateRelation(n, new.relations[n]) :
        n \in {x \in DOMAIN new.relations :
                 x \in DOMAIN old.relations => old.relations[x] # new.relations[x]}}
    \cup {DropRelation(n, old.relations[n]) :
        n \in {x \in DOMAIN old.relations :
                 x \in DOMAIN new.relations => old.relations[x] # new.relations[x]}}
    \cup {DropRule(n, old.rules[n]) : n \in (DOMAIN old.rules) \ (DOMAIN new.rules)}
    \cup {ReplaceRule(n, old.rules[n], new.rules[n]) :
        n \in {x \in (DOMAIN old.rules) \cap (DOMAIN new.rules) : old.rules[x] # new.rules[x]}}
    \cup {CreateRule(n, new.rules[n]) : n \in (DOMAIN new.rules) \ (DOMAIN old.rules)}
    \cup {DropIndex(n, IndexInfoParams(old.indexes[n])) :
        n \in {x \in DOMAIN old.indexes :
                 x \in DOMAIN new.indexes => old.indexes[x] # new.indexes[x]}}
    \cup {CreateIndex(n, IndexInfoParams(new.indexes[n])) :
        n \in {x \in DOMAIN new.indexes :
                 x \in DOMAIN old.indexes => old.indexes[x] # new.indexes[x]}}

\* C15: the operations of detect_changes(old, new) are exactly the ones the
\* two states call for, each once, in the order of the nine phases; within a
\* phase the names ascend, and the drop of a modified relation or index comes
\* right before its re-creation.
C15_PhaseOrder ==
    (cout.round = 1) =>
        /\ Range(cout.ops) = ExpectedOps(cin.old, cin.new)
        /\ Len(cout.ops) = Cardinality(ExpectedOps(cin.old, cin.new))
        /\ \A i, j \in 1..Len(cout.ops) :
              i < j =>
                 LET pi == Phase(cout.ops[i], cin.old, cin.new)
                     pj == Phase(cout.ops[j], cin.old, cin.new)
                     ri == NameRank(OpName(cout.ops[i]))
                     rj == NameRank(OpName(cout.ops[j]))
                 IN \/ pi < pj
                    \/ pi = pj /\ ri < rj
                    \/ /\ pi = pj /\ ri = rj /\ j = i + 1
                       /\ OpType(cout.ops[i]) \in {"DropRelation", "DropIndex"}
                       /\ OpType(cout.ops[j]) \in {"CreateRelation", "CreateIndex"}

\* operations of six phases, two of them for two names each
C15_Witness ==
    /\ cout.round = 1
    /\ Cardinality({Phase(cout.ops[i], cin.old, cin.new) : i \in 1..Len(cout.ops)}) >= 6
    /\ \E i \in 1..Len(cout.ops) : OpType(cout.ops[i]) = "ReplaceRule"
    /\ Len(cout.ops) >= 8

\* C16: detect_changes(S, S) is the empty list.
C16_SameStateNoOperations ==
    (cout.round = 1 /\ cin.old = cin.new) => cout.ops = <<>>

\* S has two relations, two rules and two indexes
C16_Witness ==
    /\ cout.round = 1
    /\ cin.old = cin.new
    /\ DOMAIN cin.old.relations = {"t", "u"}
    /\ DOMAIN cin.old.rules = {"q", "r"}
    /\ DOMAIN cin.old.indexes = {"t_idx", "u_idx"}

\* C17: once the forward commands of detect_changes(empty, S) and then those
\* of detect_changes(S, empty) are executed, the store has no relation, no
\* rule and no index.
C17_BackToEmptyStore ==
    (cout.round = 2 /\ cout.pending = <<>>) => cout.store = Store({}, EmptyDict, {})

\* S has two relations, two rules and two indexes, and was in the store
C17_Witness ==
    /\ cout.round = 2
    /\ cout.pending = <<>>
    /\ cin.old = EmptyState
    /\ Len(cout.ops) = 6
    /\ DOMAIN cin.new.rules = {"q", "r"}

-----------------------------------------------------------------------------
(* C18 .. C20: migration files *)

C19_NextNumberAfterAnyWrite ==
    (cout.kind = "written") =>
        /\ (load_migrations(cin.directory) = <<>>) => cout.next_before = 1
        /\ cout.next = cin.number + 1

\* the greatest number of the migration files of a directory, 0 without one
MaxNumber(directory) ==
    LET ns == {GroupNumber(f) : f \in {x \in DOMAIN directory : MIGRATION_RE_match(x)}}
    IN IF ns = {} THEN 0 ELSE CHOOSE n \in ns : \A k \in ns : k <= n

\* C19 amended: get_next_number is 1 on a directory without migration files,
\* and n + 1 after a migration numbered n is written, for n of at most four
\* digits and no smaller than the number of any migration file already there.
C19_NextNumberAfterLatestWrite ==
    (cout.kind = "written") =>
        /\ (load_migrations(cin.directory) = <<>>) => cout.next_before = 1
        /\ (cin.number <= 9999 /\ MaxNumber(cin.directory) <= cin.number) =>
              cout.next = cin.number + 1

\* number 9999 written under a custom name into a directory with migrations
C19_Witness ==
    /\ cout.kind = "written"
    /\ cin.number = 9999
    /\ cin.name_suffix = "custom"
    /\ MaxNumber(cin.directory) = 5
    /\ cout.next = 10000

\* the models give the state embedded in the latest migration file of a directory
ModelsMatchLatest(directory) ==
    /\ load_migrations(directory) # <<>>
    /\ cin.models = from_dict(get_latest_state(directory))

\* two runs, the first of which wrote a file, created one file in all
OneFileInTwoRuns ==
    (Len(cout.wrote) = 2 /\ cout.wrote[1]) =>
        Cardinality((DOMAIN cout.directory) \ (DOMAIN cin.directory)) = 1

\* C20: a run of makemigrations whose models give the state embedded in the
\* latest migration file writes no file and returns 0; and two runs in a row
\* create one file.
C20_NoChangeReturnsZero ==
    /\ (Len(cout.wrote) >= 1 /\ ModelsMatchLatest(cout.before)) =>
          cout.directory = cout.before /\ cout.code = 0
    /\ OneFileInTwoRuns

\* C20 amended: such a run writes no file, and returns 0 when a model is
\* found and 1 when none is; and two runs in a row create one file.
C20_NoChangeWritesNothing ==
    /\ (Len(cout.wrote) >= 1 /\ ModelsMatchLatest(cout.before)) =>
          /\ cout.directory = cout.before
          /\ cout.code = IF is_empty(cin.models) THEN 1 ELSE 0
    /\ OneFileInTwoRuns

\* the first run wrote the second migration file, the second run none
C20_Witness ==
    /\ cout.wrote = <<TRUE, FALSE>>
    /\ cout.code = 0
    /\ ModelsMatchLatest(cout.before)
    /\ Cardinality(DOMAIN cin.directory) = 1
    /\ Cardinality(DOMAIN cout.directory) = 2

-----------------------------------------------------------------------------
(* C21: the files of a sequence of makemigrations runs *)

\* C21: after any runs of makemigrations on a directory that was empty, the
\* files are all migration files, numbered 1..n in the order of loading; the
\* first depends on nothing and each later one on the one numbered one less.
C21_NumberedChain ==
    LET ms == load_migrations(cout.directory) IN
    /\ Len(ms) = Cardinality(DOMAIN cout.directory)
    /\ \A i \in 1..Len(ms) :
          /\ ms[i].number = i
          /\ ms[i].dependencies = IF i = 1 THEN <<>> ELSE <<ms[i - 1].name>>

\* three files, one of them under a custom name
C21_Witness ==
    /\ Cardinality(DOMAIN cout.directory) = 3
    /\ \E f \in DOMAIN cout.directory : f[6] = "custom"
    /\ \E f \in DOMAIN cout.directory : f[6] = "auto"

-----------------------------------------------------------------------------
(* C22, C27: execute and the messages of the socket *)

\* the messages of the server that have been read off the socket, in order
Consumed == SubSeq(cin.sent, 1, Len(cin.sent) - Len(cout.inbox))

\* the callback calls that the notifications read so far call for, in order
ExpectedCalls ==
    Concat([i \in 1..Len(Consumed) |->
        IF MsgType(Consumed[i]) # "notification" THEN <<>>
        ELSE SelectSeq([j \in 1..Len(Callbacks) |->
                           IF Callbacks[j][1] \in {None, Consumed[i][2]}
                           THEN <<Callbacks[j][2], Consumed[i][3][1]>> ELSE <<>>],
                       LAMBDA e : e # <<>>)])

\* the result that execute returns for a reply of the server
ReturnedFor(reply) ==
    CASE MsgType(reply[1]) = "result" -> reply[1]
      [] MsgType(reply[1]) = "error" -> ResultResponse("error", <<reply[1][2]>>)
      [] OTHER -> ResultResponse(reply[1][2], reply[2][3])

\* C22: the notifications read while execute waits reach the matching
\* callbacks in arrival order, pongs are skipped, and an execute that waits
\* returns: what it returns is the result (or the error as a one-column
\* result) that the server sent for it.
C22_ExecuteReturnsFirstResult ==
    /\ [](cout.dispatched = ExpectedCalls)
    /\ []((cout.exec = "returned") =>
             cout.value \in {ReturnedFor(r) : r \in Replies(cin.requests)})
    /\ ((cout.exec = "waiting") ~> (cout.exec = "returned"))

\* C27: with the receive loop running, no result, error or stream message is
\* read and dropped by the loop, and no execute ends without its result.
C27_LoopLeavesReplies ==
    /\ \A i \in 1..Len(cout.dropped) : MsgType(cout.dropped[i]) = "pong"
    /\ cout.exec # "raised"

-----------------------------------------------------------------------------
(* C23, C26: what migrate and revert_to leave recorded *)

\* C23: after any calls of migrate and revert_to on a store that started
\* without a record, the recorded names are those of a prefix of the list.
C23_RecordedIsPrefix ==
    \E k \in 0..Len(migrations) :
        AppliedNames(rows) = {migrations[i].name : i \in 1..k}

\* C26: a migrate with a target of the list applies no migration positioned
\* after the target, whatever was recorded before the call.
C26_NothingAfterTarget ==
    (call.op = "migrate" /\ call.target \in Names(migrations)) =>
        \A i \in 1..Len(result) :
            PositionOf(migrations, result[i]) <= PositionOf(migrations, call.target)

-----------------------------------------------------------------------------
(* C24, C25: the detected migration on a naive store *)

\* C24: on a naive store that holds exactly old, the forward commands of
\* detect_changes(old, new), in order, leave a store that holds exactly new.
C24_ForwardReachesNew ==
    (cout.kind = "naive" /\ cout.step = "applied") => cout.store = NaiveStoreOf(cin.new)

\* a relation was modified, a rule replaced and an index changed
C24_Witness ==
    /\ cout.kind = "naive"
    /\ cout.step = "applied"
    /\ cout.store = NaiveStoreOf(cin.new)
    /\ \E n \in DOMAIN cin.old.relations \cap DOMAIN cin.new.relations :
           cin.old.relations[n] # cin.new.relations[n]
    /\ \E n \in DOMAIN cin.old.rules \cap DOMAIN cin.new.rules :
           cin.old.rules[n] # cin.new.rules[n]
    /\ \E n \in DOMAIN cin.old.indexes \cap DOMAIN cin.new.indexes :
           cin.old.indexes[n] # cin.new.indexes[n]

\* C25: applying the migration of detect_changes(old, new) to a naive store
\* that holds old and reverting it leaves the store holding exactly old.
C25_RevertRestoresOld ==
    (cout.kind = "naive" /\ cout.step = "reverted") => cout.store = NaiveStoreOf(cin.old)

\* the reverted migration dropped a rule, replaced another and dropped an index
C25_Witness ==
    /\ cout.kind = "naive"
    /\ cout.step = "reverted"
    /\ cout.store = NaiveStoreOf(cin.old)
    /\ cin.old # cin.new
    /\ DOMAIN cin.old.rules \ DOMAIN cin.new.rules # {}
    /\ \E n \in DOMAIN cin.old.rules \cap DOMAIN cin.new.rules :
           cin.old.rules[n] # cin.new.rules[n]
    /\ DOMAIN cin.old.indexes \ DOMAIN cin.new.indexes # {}

-----------------------------------------------------------------------------
(* C28: a join equality inside one OR branch *)

\* the condition holds the equality Employee.dept_id == Department.id
RECURSIVE HasJoin(_)
HasJoin(e) ==
    CASE NodeType(e) = "Comparison" -> e = JoinCondition
      [] NodeType(e) = "Not" -> HasJoin(e[2])
      [] OTHER -> HasJoin(e[2]) \/ HasJoin(e[3])

\* the two columns of the join carry one variable in the body atoms of q
JoinedInAtoms(q) ==
    \E o1, o2 \in Occs(q.atoms) :
        /\ o1[1] = Key(employee_dept_id)
        /\ o2[1] = Key(department_id)
        /\ o1[2] = o2[2]

\* the branches of the split condition whose leaf holds the join equality
JoinBranches == {i \in 1..Len(SpineLeaves(cin.where_condition)) :
                    HasJoin(SpineLeaves(cin.where_condition)[i])}

\* C28: when a Column = Column equality occurs in only one branch of an
\* OR-split query, the queries emitted for the other branches do not give the
\* two columns one variable in their body atoms.
C28_JoinStaysInItsBranch ==
    (/\ cout.kind = "list"
     /\ cin.on_condition = Absent
     /\ Cardinality(JoinBranches) = 1) =>
        \A i \in 1..Len(cout.queries) : i \notin JoinBranches => ~JoinedInAtoms(cout.queries[i])

-----------------------------------------------------------------------------
(* C29: the tuples a conditional delete removes *)

MaxValue == 2        \* the values a column of an employee tuple takes: 1..MaxValue

\* the tuples of employee
EmployeeTuples == (1..MaxValue) \X (1..MaxValue) \X (1..MaxValue)

\* the value of an operand of a comparison on the tuple t of employee
OperandValue(x, t) ==
    IF NodeType(x) = "Literal" THEN x[2]
    ELSE t[CHOOSE i \in 1..Len(Columns("employee")) : Columns("employee")[i] = ColName(x)]

Compare(op, l, r) ==
    CASE op = "=" -> l = r
      [] op = "<" -> l < r
      [] op = ">" -> l > r

\* the tuple t satisfies the condition
RECURSIVE Satisfies(_, _)
Satisfies(t, e) ==
    CASE NodeType(e) = "Comparison" ->
            Compare(e[2], OperandValue(e[3], t), OperandValue(e[4], t))
      [] NodeType(e) = "And" -> Satisfies(t, e[2]) /\ Satisfies(t, e[3])
      [] NodeType(e) = "Or" -> Satisfies(t, e[2]) \/ Satisfies(t, e[3])
      [] NodeType(e) = "Not" -> ~Satisfies(t, e[2])

\* The comparisons a body literal can spell: term op term, the terms being
\* the variables of the atom and the values of the model.
LiteralReadings(rule) ==
    LET terms == [var : Range(rule.atom), isVar : {TRUE}]
                 \cup {[var |-> ToString(v), isVar |-> FALSE, value |-> v] : v \in 1..MaxValue}
    IN {[text |-> l.var \o " " \o op \o " " \o r.var, op |-> op, left |-> l, right |-> r] :
           l \in terms, r \in terms, op \in {"=", "<", ">"}}

\* the literal is a comparison, or the negation of one comparison
Readable(rule, text) ==
    \E c \in LiteralReadings(rule) : text \in {c.text, "!(" \o c.text \o ")"}

\* every body literal of the rule can be read
WellFormed(rule) == \A i \in 1..Len(rule.literals) : Readable(rule, rule.literals[i].text)

\* the value of a term when the atom of the rule is matched with the tuple t
TermValue(rule, x, t) ==
    IF x.isVar THEN t[CHOOSE i \in 1..Len(rule.atom) : rule.atom[i] = x.var] ELSE x.value

\* the body literal holds when the atom is matched with t
LiteralHolds(rule, text, t) ==
    LET c == CHOOSE r \in LiteralReadings(rule) : text \in {r.text, "!(" \o r.text \o ")"}
        holds == Compare(c.op, TermValue(rule, c.left, t), TermValue(rule, c.right, t))
    IN IF text = c.text THEN holds ELSE ~holds

\* the rule deletes t: its atom matches t (one variable at two positions
\* needs equal values there), every literal holds, and the head spells t
Deletes(rule, t) ==
    /\ rule.head = rule.atom
    /\ \A i, j \in 1..Len(rule.atom) : rule.atom[i] = rule.atom[j] => t[i] = t[j]
    /\ \A i \in 1..Len(rule.literals) : LiteralHolds(rule, rule.literals[i].text, t)

\* C29: the rule of compile_conditional_delete deletes exactly the tuples of
\* the target relation that satisfy the condition.
C29_DeletesExactlyTheSatisfying ==
    (cout.kind = "delete" /\ WellFormed(cout)) =>
        \A t \in EmployeeTuples : Deletes(cout, t) <=> Satisfies(t, cin.condition)

-----------------------------------------------------------------------------
(* C30: the rows of a query with a limit *)

\* C30: query with limit=N returns at most N rows, also when the condition
\* holds Or and the rows of the split queries are concatenated.
C30_AtMostLimitRows ==
    (cout.kind = "rows" /\ cin.limit # Absent) => Len(cout.rows) <= cin.limit[1]

=============================================================================
